---- MODULE Spec2Model ----
(***************************************************************************)
(* Model of the hybrid retrieval (vector + BM25 + rerank) and of the       *)
(* ingestion chunk preparation of the RAG service.                         *)
(*                                                                         *)
(*   src/src/core/retriever.py            HybridRetriever.aretrieve        *)
(*   src/src/core/reranker.py             Reranker                         *)
(*   src/src/core/ingestion/ingestion.py  IngestionService                 *)
(*   src/src/core/ingestion/docx_parser.py DocxParser                      *)
(***************************************************************************)
EXTENDS Integers, Sequences, FiniteSets, TLC

VARIABLES
    vec_docs,      \* aretrieve: result of vector_retriever.aretrieve(query)
    bm25_docs,     \* aretrieve: result of bm25_retriever.aretrieve(query), [] when absent
    merged_docs,   \* aretrieve: list(docs_map.values())
    candidates,    \* aretrieve: merged_docs[:pre_rerank_k]
    ranked_docs,   \* aretrieve: result of reranker.arerank(query, candidates)
    result,        \* aretrieve: the returned list ranked_docs[:top_k]
    pc,            \* position of the aretrieve coroutine
    stage_calls,   \* aretrieve: the stages this call has invoked, in order
    error,         \* aretrieve: the stage whose exception reached the caller
    bm25,          \* lifespan: the AsyncBM25Retriever shared by retrieval and ingestion, or None
    model,         \* Reranker.model
    tokenizer,     \* Reranker.tokenizer
    rstate,        \* Reranker object: "new" (inside __init__), "ready", "failed"
    rr_documents,  \* _rerank_sync: the documents argument of the last call
    rr_scores,     \* _rerank_sync: the scores the model gave in the last call
    rr_out,        \* _rerank_sync: the list returned by the last call
    rr_pc,         \* "returned" while the last call's record is held, else "idle"
    load_raised,   \* Reranker: the last load() raised past its caller
    load_outcome,  \* Reranker: what from_pretrained did in the last load()
    unloads,       \* Reranker: unload() calls returned since the last load()
    unload_raised, \* Reranker: the last unload() raised past its caller
    ingest_pc,     \* "idle" before the first ingest_file call, then "prepared"
    ing_filename,  \* ingest_file: the filename argument of the last call
    ing_file,      \* ingest_file: the paragraphs of the file of the last call
    ing_docs,      \* ingest_file: docs = parser.parse()
    ing_chunks,    \* ingest_file: chunks as handed to _prepare_chunks
    ing_documents, \* ingest_file: documents out of _prepare_chunks
    ing_ids,       \* ingest_file: ids out of _prepare_chunks
    reingested,    \* the last call took the file of the call before, renamed
    p_lines,       \* parse: lines = full_text.split("\n")
    p_idx,         \* parse: idx, counting from 1
    p_content,     \* parse: current_content
    p_section,     \* DocxParser.current_section
    p_documents,   \* parse: documents
    p_pc,          \* parse: "off", "scan" (in the while loop) or "done"
    p_class,       \* the branch the loop took at each line it has been at
    p_content_src, \* the index in lines of each line of current_content
    p_src,         \* the indices in lines of the lines of each block
    bm25_documents, \* AsyncBM25Retriever._documents
    bm25_index,    \* the documents AsyncBM25Retriever.retriever was built from, <<>> for None
    lock_holder,   \* AsyncBM25Retriever._lock: the task holding it, or NoTask
    tasks,         \* the calls on the AsyncBM25Retriever: operation, argument, position
    app_pc,        \* lifespan: "starting", "serving", "failed" or "stopped"
    all_docs,      \* lifespan: all_docs = await vector_store.aget_all_documents()
    vector_index,  \* the Qdrant collection: <<id, document>> points
    pipeline_retriever, \* RAGPipeline.retriever: the class of the retriever it holds
    ing_stages,    \* ingest_file: the stages this call has invoked, in order
    ing_error,     \* ingest_file: the stage whose exception reached the caller
    vec_before,    \* the collection when the last ingest_file call began
    lex_before,    \* _documents and the built index when that call began
    counts_prev,   \* entries held for the file of the returned call before the last
    counts_last,   \* entries held for the file of the last returned call
    question,      \* arun: what the search engines and the reranker give for the query
    evidence,      \* arun: docs, the documents handed to the prompt of the LLM
    ask_pc,        \* "answered" while the last arun call's record is held, else "idle"
    q_counter,     \* Redis: question_id_counter
    q_store,       \* Redis: the record stored under question:<id>, per id
    q_tasks        \* ask_question and its process_question task, per question id

vars == <<vec_docs, bm25_docs, merged_docs, candidates, ranked_docs, result, pc,
          stage_calls, error, bm25,
          model, tokenizer, rstate, rr_documents, rr_scores, rr_out, rr_pc,
          load_raised, load_outcome, unloads, unload_raised, ingest_pc, ing_filename, ing_file, ing_docs, ing_chunks,
          ing_documents, ing_ids, reingested, p_lines, p_idx, p_content,
          p_section, p_documents, p_pc, p_class, p_content_src, p_src,
          bm25_documents, bm25_index, lock_holder, tasks, app_pc, all_docs,
          vector_index, pipeline_retriever, ing_stages, ing_error, vec_before,
          lex_before, counts_prev, counts_last, question, evidence, ask_pc,
          q_counter, q_store, q_tasks>>

retrVars == <<vec_docs, bm25_docs, merged_docs, candidates, ranked_docs, result, pc,
              stage_calls, error, bm25>>
rerankerVars == <<model, tokenizer, rstate, load_raised, load_outcome, unloads,
                  unload_raised>>
rerankCallVars == <<rr_documents, rr_scores, rr_out, rr_pc>>
ingestVars == <<ingest_pc, ing_filename, ing_file, ing_docs, ing_chunks,
                ing_documents, ing_ids, reingested>>
parseVars == <<p_lines, p_idx, p_content, p_section, p_documents, p_pc, p_class,
               p_content_src, p_src>>
bm25Vars == <<bm25_documents, bm25_index, lock_holder, tasks>>
serviceVars == <<app_pc, all_docs, vector_index, pipeline_retriever, ing_stages,
                 ing_error, vec_before, lex_before, counts_prev, counts_last,
                 question, evidence, ask_pc>>
questionVars == <<q_counter, q_store, q_tasks>>

(***************************************************************************)
(* Bounds of the model.                                                    *)
(***************************************************************************)
MaxVec == 3        \* longest vector-result list given to the fusion on its own
MaxLex == 2        \* longest lexical-result list given to the fusion on its own
MaxCand == 3       \* longest candidate list given to rerank on its own
MaxLines == 3      \* most paragraphs in an ingested file
ChunkSize == 4     \* IngestionService chunk_size (1200)
ChunkOverlap == 1  \* IngestionService chunk_overlap (300)
vector_k == 2      \* VectorRetriever.k: longest vector result in aretrieve (5)
bm25_k == 1        \* BM25Retriever.k: longest lexical result in aretrieve (4)
pre_rerank_k == 2  \* HybridRetriever.pre_rerank_k (30)
top_k == 1         \* HybridRetriever.top_k (5)
MaxUnloads == 2    \* unload() calls counted after one load()
MaxParseLines == 4 \* most paragraphs in a parsed document
NumTasks == 3      \* concurrent calls on the AsyncBM25Retriever
MaxCorpus == 4     \* most documents held by the AsyncBM25Retriever of the service
MaxQuestions == 3  \* most questions submitted

(***************************************************************************)
(* Generic helpers.                                                        *)
(***************************************************************************)
None == "None"

Range(s) == {s[i] : i \in 1..Len(s)}

SeqUpTo(S, n) == UNION {[1..k -> S] : k \in 0..n}

Min(a, b) == IF a <= b THEN a ELSE b

\* Python slice s[:k] for k >= 0
Prefix(s, k) == SubSeq(s, 1, Min(k, Len(s)))

(***************************************************************************)
(* Documents returned by the two searches.  page_content is the chunk      *)
(* text; chunk_hash is metadata["chunk_hash"] (NoHash when the key is      *)
(* absent); origin stands for the rest of the metadata, which tells the    *)
(* copy built from a Qdrant point from the copy held by the BM25 corpus.   *)
(***************************************************************************)
\* A text is a sequence of characters.
Texts == {<<"a">>, <<"b">>}

\* metadata.get("chunk_hash") when the key is absent
NoHash == <<"None">>

Sha256(text) == <<"sha256", text>>

DocsFrom(o) ==
    {[page_content |-> t, chunk_hash |-> h, origin |-> o] :
        <<t, h>> \in {<<x, y>> \in Texts \X ({NoHash} \cup {Sha256(z) : z \in Texts}) :
                        y \in {NoHash, Sha256(x)}}}

VecDocs == DocsFrom("vector")
LexDocs == DocsFrom("bm25")

(***************************************************************************)
(* HybridRetriever.aretrieve, lines 158-163: the fusion.                   *)
(***************************************************************************)
\* key = doc.metadata.get("chunk_hash") or doc.page_content
FusionKey(doc) ==
    IF doc.chunk_hash # NoHash THEN doc.chunk_hash ELSE doc.page_content

\* A Python dict as the sequence of its <<key, value>> items in insertion order.
DictKeys(d) == {d[i][1] : i \in 1..Len(d)}

\* Mutants of DictSet: a list append, dict.setdefault, and delete-then-insert.
DictSetAppend(d, key, value) == Append(d, <<key, value>>)

DictSetKeepFirst(d, key, value) ==
    IF key \in DictKeys(d) THEN d ELSE Append(d, <<key, value>>)

DictSetMoveToEnd(d, key, value) ==
    Append(SelectSeq(d, LAMBDA item : item[1] # key), <<key, value>>)

\* d[key] = value: a new key is appended, an existing key keeps its slot.
DictSet(d, key, value) ==
    IF key \in DictKeys(d)
    THEN [i \in 1..Len(d) |-> IF d[i][1] = key THEN <<key, value>> ELSE d[i]]
    ELSE Append(d, <<key, value>>)

DictValues(d) == [i \in 1..Len(d) |-> d[i][2]]

RECURSIVE BuildDocsMap(_, _)
\* for doc in docs: docs_map[key] = doc, starting from the dict d
BuildDocsMap(d, docs) ==
    IF docs = <<>> THEN d
    ELSE BuildDocsMap(DictSet(d, FusionKey(Head(docs)), Head(docs)), Tail(docs))

\* merged_docs = list(docs_map.values()) for vec_docs V and bm25_docs L
FuseDocs(V, L) == DictValues(BuildDocsMap(<<>>, V \o L))

\* Mutant of Candidates: the cut to pre_rerank_k is left out.
CandidatesUncut(merged) == merged

\* line 164: candidates = merged_docs[:self.pre_rerank_k]
Candidates(merged) == Prefix(merged, pre_rerank_k)

\* Mutant of TopK: ranked_docs[-top_k:], the last top_k instead of the first.
TopKLast(ranked) ==
    SubSeq(ranked, Len(ranked) - Min(top_k, Len(ranked)) + 1, Len(ranked))

\* line 178: return ranked_docs[:self.top_k]
TopK(ranked) == Prefix(ranked, top_k)

(***************************************************************************)
(* Reranker: load / unload life cycle and _rerank_sync.                    *)
(***************************************************************************)
Model == "model"
Tokenizer == "tokenizer"

\* What from_pretrained does in one load(): both succeed, the model fails
\* (the tokenizer is then not attempted), or only the tokenizer fails.
LoadOutcomes == {"ok", "model_fails", "tokenizer_fails"}

\* load(): fields after the try block, and whether self.model.to(device),
\* which runs after the except clause, raises (AttributeError on None).
LoadEffect(m, t, outcome) ==
    LET m2 == IF outcome = "model_fails" THEN m ELSE Model
        t2 == IF outcome = "ok" THEN Tokenizer ELSE t
    IN  [model |-> m2, tokenizer |-> t2, raised |-> (m2 = None)]

\* Mutant of UnloadEffect: the tokenizer is kept.
UnloadEffectKeepsTokenizer(m, t) ==
    IF m = None
    THEN [model |-> m, tokenizer |-> t, raised |-> FALSE]
    ELSE [model |-> None, tokenizer |-> t, raised |-> FALSE]

\* unload(): self.model.to("cpu") raises on None inside the try and the
\* except clause logs it, leaving the fields as they were; otherwise both
\* fields are set to None. Nothing is raised past the caller either way.
UnloadEffect(m, t) ==
    IF m = None
    THEN [model |-> m, tokenizer |-> t, raised |-> FALSE]
    ELSE [model |-> None, tokenizer |-> None, raised |-> FALSE]

\* The logits the model may give to one (query, document) pair.
Scores == {-1, 0, 1}

\* Mutant of InsertDesc: equal scores go before (an unstable sort).
InsertDescTiesFirst(sorted, x) ==
    LET before == {i \in 1..Len(sorted) : sorted[i][2] > x[2]}
        n == Cardinality(before)
    IN  SubSeq(sorted, 1, n) \o <<x>> \o SubSeq(sorted, n + 1, Len(sorted))

\* One step of scored_docs.sort(key=score, reverse=True) on a sorted prefix:
\* x goes after every pair whose score is at least its own.
InsertDesc(sorted, x) ==
    LET before == {i \in 1..Len(sorted) : sorted[i][2] >= x[2]}
        n == Cardinality(before)
    IN  SubSeq(sorted, 1, n) \o <<x>> \o SubSeq(sorted, n + 1, Len(sorted))

RECURSIVE SortDesc(_, _)
SortDesc(sorted, pairs) ==
    IF pairs = <<>> THEN sorted
    ELSE SortDesc(InsertDesc(sorted, Head(pairs)), Tail(pairs))

\* Mutant of RerankSync: an unloaded reranker returns nothing.
RerankSyncEmptyWhenUnloaded(m, t, documents, scores) ==
    IF m = None \/ t = None \/ documents = <<>> THEN <<>>
    ELSE LET scored_docs == [i \in 1..Len(documents) |-> <<documents[i], scores[i]>>]
             sorted == SortDesc(<<>>, scored_docs)
         IN  [i \in 1..Len(sorted) |-> sorted[i][1]]

\* _rerank_sync(query, documents) when the model gives scores[i] to documents[i]
RerankSync(m, t, documents, scores) ==
    IF m = None \/ t = None THEN documents
    ELSE IF documents = <<>> THEN <<>>
    ELSE LET scored_docs == [i \in 1..Len(documents) |-> <<documents[i], scores[i]>>]
             sorted == SortDesc(<<>>, scored_docs)
         IN  [i \in 1..Len(sorted) |-> sorted[i][1]]

\* The score lists one call can see: one logit per document when loaded,
\* none when the model is not run.
ScoreLists(m, t, documents) ==
    IF m = None \/ t = None \/ documents = <<>> THEN {<<>>}
    ELSE [1..Len(documents) -> Scores]

(***************************************************************************)
(* Texts of the ingestion: sequences of characters.                        *)
(***************************************************************************)
SoftHyphen == "\\xad"
Newline == "\n"
Whitespace == {" ", "\t", Newline}

\* str.strip()
RECURSIVE LStrip(_)
LStrip(text) ==
    IF text # <<>> /\ Head(text) \in Whitespace THEN LStrip(Tail(text)) ELSE text

RECURSIVE RStrip(_)
RStrip(text) ==
    IF text # <<>> /\ text[Len(text)] \in Whitespace
    THEN RStrip(SubSeq(text, 1, Len(text) - 1))
    ELSE text

Strip(text) == RStrip(LStrip(text))

RECURSIVE JoinLines(_)
\* "\n".join(lines)
JoinLines(lines) ==
    IF lines = <<>> THEN <<>>
    ELSE IF Len(lines) = 1 THEN lines[1]
    ELSE lines[1] \o <<Newline>> \o JoinLines(Tail(lines))

RECURSIVE CollapseWhitespace(_, _, _)
\* " ".join(text.split()): acc is the output so far, gap tells that
\* whitespace was met since the last word character
CollapseWhitespace(text, acc, gap) ==
    IF text = <<>> THEN acc
    ELSE IF Head(text) \in Whitespace THEN CollapseWhitespace(Tail(text), acc, TRUE)
    ELSE CollapseWhitespace(
            Tail(text),
            IF gap /\ acc # <<>> THEN acc \o <<" ", Head(text)>>
                                 ELSE Append(acc, Head(text)),
            FALSE)

\* IngestionService._normalize_text
NormalizeText(text) ==
    CollapseWhitespace(SelectSeq(text, LAMBDA c : c # SoftHyphen), <<>>, FALSE)

\* IngestionService._chunk_hash: SHA-256 taken as injective
ChunkHash(text) == Sha256(text)

\* IngestionService._chunk_uuid: UUID5 taken as injective
ChunkUuid(text) == <<"uuid5", "NAMESPACE_DNS", text>>

\* IngestionService._calculate_file_hash over the bytes of the file
CalculateFileHash(file) == <<"sha256-file", file>>

(***************************************************************************)
(* DocxParser: the line scan of parse().                                   *)
(***************************************************************************)
Digits == {"0", "1", "2", "3", "4", "5", "6", "7", "8", "9"}

\* [A-YA, YO] of the Cyrillic alphabet, each letter named by its code point
UpperCyrillic ==
    {"U+0410", "U+0411", "U+0412", "U+0413", "U+0414", "U+0415",
     "U+0401", "U+0416", "U+0417", "U+0418", "U+0419", "U+041A",
     "U+041B", "U+041C", "U+041D", "U+041E", "U+041F", "U+0420",
     "U+0421", "U+0422", "U+0423", "U+0424", "U+0425", "U+0426",
     "U+0427", "U+0428", "U+0429", "U+042A", "U+042B", "U+042C",
     "U+042D", "U+042E", "U+042F"}

\* The word of the appendix pattern, kept as one symbol of a line
AppendixWord == "Prilozhenie"

\* The numero sign U+2116 of the appendix pattern
NumeroSign == "U+2116"

\* The length of the longest prefix of text made of characters of S
RECURSIVE RunLength(_, _)
RunLength(text, S) ==
    IF text # <<>> /\ Head(text) \in S THEN 1 + RunLength(Tail(text), S) ELSE 0

Drop(text, n) == SubSeq(text, n + 1, Len(text))

\* ^(\d+)\.\s+([upper][upper\s]+)$ with upper the Cyrillic capitals
IsNumberedHeading(line) ==
    LET d == RunLength(line, Digits)
        afterDot == Drop(line, d + 1)
        w == RunLength(afterDot, Whitespace)
        title == Drop(afterDot, w)
    IN  /\ d >= 1
        /\ Len(line) > d
        /\ line[d + 1] = "."
        /\ w >= 1
        /\ Len(title) >= 2
        /\ title[1] \in UpperCyrillic
        /\ \A i \in 2..Len(title) : title[i] \in UpperCyrillic \cup Whitespace

\* ^(<appendix word>\s*<numero sign>\s*\d+)
IsAppendixHeading(line) ==
    /\ line # <<>>
    /\ line[1] = AppendixWord
    /\ LET a == Drop(line, 1 + RunLength(Tail(line), Whitespace))
       IN  /\ a # <<>>
           /\ a[1] = NumeroSign
           /\ LET b == Drop(a, 1 + RunLength(Tail(a), Whitespace))
              IN  b # <<>> /\ b[1] \in Digits

\* ^#{1,2}\s+(.+)$
IsMarkdownHeading(line) ==
    \E h \in 1..2 :
        /\ Len(line) > h
        /\ \A i \in 1..h : line[i] = "#"
        /\ line[h + 1] \in Whitespace
        /\ Len(line) >= h + 2
        /\ \A i \in (h + 2)..Len(line) : line[i] # Newline

\* DocxParser._is_main_section
IsMainSection(line) ==
    /\ line # <<>>
    /\ \/ IsNumberedHeading(line)
       \/ IsAppendixHeading(line)
       \/ IsMarkdownHeading(line)

HasPipe(line) == \E i \in 1..Len(line) : line[i] = "|"

\* ^\|[\s\-:|]+\|$
IsSeparatorRow(line) ==
    /\ Len(line) >= 3
    /\ line[1] = "|"
    /\ line[Len(line)] = "|"
    /\ \A i \in 2..(Len(line) - 1) : line[i] \in Whitespace \cup {"-", ":", "|"}

\* DocxParser._is_table_start(lines, idx), idx counting from 1
IsTableStart(lines, idx) ==
    /\ idx <= Len(lines)
    /\ idx + 1 <= Len(lines)
    /\ HasPipe(Strip(lines[idx]))
    /\ HasPipe(Strip(lines[idx + 1]))
    /\ IsSeparatorRow(Strip(lines[idx + 1]))

\* Mutant of TableEnd: the table ends after its separator row.
TableEndAfterSeparator(lines, idx) == Min(idx + 1, Len(lines) + 1)

RECURSIVE TableEnd(_, _)
\* DocxParser._extract_table: the index of the first line after the run of
\* lines holding "|" that starts at idx
TableEnd(lines, idx) ==
    IF idx <= Len(lines) /\ HasPipe(Strip(lines[idx]))
    THEN TableEnd(lines, idx + 1)
    ELSE idx

\* Mutant of ExtractTable: the separator row is left out of the table text.
ExtractTableSkipsSeparator(lines, start_idx) ==
    JoinLines([i \in 1..(TableEnd(lines, start_idx + 1) - start_idx - 1) |->
                  Strip(lines[IF i = 1 THEN start_idx ELSE start_idx + i])])

\* DocxParser._extract_table: the text of the table starting at start_idx
ExtractTable(lines, start_idx) ==
    JoinLines([i \in 1..(TableEnd(lines, start_idx + 1) - start_idx) |->
                  Strip(lines[start_idx + i - 1])])

\* DocxParser.current_section before any header line
NoSection == <<"None">>

\* DocxParser._create_document
CreateDocument(text, chunk_type, is_atomic, current_section) ==
    [page_content |-> text, chunk_type |-> chunk_type,
     section |-> current_section, is_atomic |-> is_atomic]

\* Mutant of Flush: the paragraph block carries no section.
FlushNoSection(documents, current_content, current_section) ==
    IF current_content # <<>>
    THEN Append(documents,
                CreateDocument(JoinLines(current_content), "paragraph", FALSE,
                               NoSection))
    ELSE documents

\* The flush of the text buffer as a paragraph block, when it is not empty
Flush(documents, current_content, current_section) ==
    IF current_content # <<>>
    THEN Append(documents,
                CreateDocument(JoinLines(current_content), "paragraph", FALSE,
                               current_section))
    ELSE documents

RECURSIVE ParseLoop(_, _, _, _, _)
\* DocxParser.parse: the while loop from line index idx on, and the final flush
ParseLoop(lines, idx, current_content, current_section, documents) ==
    IF idx > Len(lines)
    THEN Flush(documents, current_content, current_section)
    ELSE LET line == Strip(lines[idx])
         IN  IF line = <<>>
             THEN ParseLoop(lines, idx + 1, current_content, current_section, documents)
             ELSE IF IsTableStart(lines, idx)
             THEN ParseLoop(lines, TableEnd(lines, idx + 1), <<>>, current_section,
                            Append(Flush(documents, current_content, current_section),
                                   CreateDocument(ExtractTable(lines, idx), "table",
                                                  TRUE, current_section)))
             ELSE IF IsMainSection(line)
             THEN ParseLoop(lines, idx + 1, <<line>>, line,
                            Flush(documents, current_content, current_section))
             ELSE ParseLoop(lines, idx + 1, Append(current_content, line),
                            current_section, documents)

\* full_text.split("\n") for a document whose paragraphs are the given
\* lines: every paragraph is followed by "\n", so an empty line ends the list
SplitLines(paragraphs) == Append(paragraphs, <<>>)

\* DocxParser(path).parse() for a document with the given paragraphs
Parse(paragraphs) == ParseLoop(SplitLines(paragraphs), 1, <<>>, NoSection, <<>>)

(***************************************************************************)
(* IngestionService: splitting and chunk preparation.                      *)
(***************************************************************************)
RECURSIVE Windows(_, _)
\* Pieces of at most ChunkSize characters, each starting ChunkOverlap
\* characters before the end of the one before
Windows(text, start) ==
    IF start + ChunkSize - 1 >= Len(text)
    THEN <<SubSeq(text, start, Len(text))>>
    ELSE <<SubSeq(text, start, start + ChunkSize - 1)>>
            \o Windows(text, start + ChunkSize - ChunkOverlap)

\* self.splitter.split_text: a text within chunk_size is one piece, a longer
\* one is cut into overlapping pieces; pieces are stripped, empty ones dropped
SplitText(text) ==
    LET pieces == IF Len(text) <= ChunkSize THEN <<text>> ELSE Windows(text, 1)
        stripped == [i \in 1..Len(pieces) |-> Strip(pieces[i])]
    IN  SelectSeq(stripped, LAMBDA piece : piece # <<>>)

RECURSIVE SplitDocuments(_)
\* self.splitter.split_documents: the pieces of each document in turn, each
\* with the metadata of the document it was cut from
SplitDocuments(docs) ==
    IF docs = <<>> THEN <<>>
    ELSE LET pieces == SplitText(Head(docs).page_content)
         IN  [i \in 1..Len(pieces) |-> [Head(docs) EXCEPT !.page_content = pieces[i]]]
                \o SplitDocuments(Tail(docs))

\* Mutant of SplitChunks: every block goes through the splitter.
SplitChunksAll(docs) == SplitDocuments(docs)

\* ingest_file, lines 58-66: tables bypass the splitter and are appended
\* after the split text chunks
SplitChunks(docs) ==
    SplitDocuments(SelectSeq(docs, LAMBDA d : ~d.is_atomic))
        \o SelectSeq(docs, LAMBDA d : d.is_atomic)

\* Mutant of ChunkIdentity: the id is derived from the file name and the text.
ChunkIdentityPerSource(normalized_text, source, file_hash, idx) ==
    [chunk_hash |-> ChunkHash(normalized_text),
     chunk_uuid |-> ChunkUuid(<<source, normalized_text>>)]

\* _prepare_chunks, lines 109-110: the identity given to a chunk
ChunkIdentity(normalized_text, source, file_hash, idx) ==
    [chunk_hash |-> ChunkHash(normalized_text),
     chunk_uuid |-> ChunkUuid(normalized_text)]

\* Mutant of Enumerate: the index restarts for the chunks of each type.
EnumeratePerType(cs) ==
    [i \in 1..Len(cs) |->
        Cardinality({j \in 1..(i - 1) : cs[j].chunk_type = cs[i].chunk_type})]

\* _prepare_chunks, line 106: the idx of enumerate(chunks) for each chunk
Enumerate(cs) == [i \in 1..Len(cs) |-> i - 1]

\* _prepare_chunks: the body of the loop for one chunk
PrepareChunk(chunk, idx, source, file_hash) ==
    LET normalized_text == NormalizeText(chunk.page_content)
        identity == ChunkIdentity(normalized_text, source, file_hash, idx)
    IN  [page_content |-> normalized_text,
         source |-> source,
         file_hash |-> file_hash,
         chunk_hash |-> identity.chunk_hash,
         chunk_index |-> idx,
         chunk_uuid |-> identity.chunk_uuid,
         chunk_type |-> chunk.chunk_type,
         section |-> chunk.section,
         is_atomic |-> chunk.is_atomic]

\* _prepare_chunks: the documents list
PrepareChunks(cs, source, file_hash) ==
    [i \in 1..Len(cs) |-> PrepareChunk(cs[i], Enumerate(cs)[i], source, file_hash)]

\* The paragraphs a file may hold, and the names it may be uploaded under
IngestLines ==
    {<<"x", " ", "y", " ", "x">>,
     <<"x", SoftHyphen, " ", "y">>,
     <<"|", "x", "|">>,
     <<"|", "-", "|">>}

Files == SeqUpTo(IngestLines, MaxLines)

FileNames == {"a.docx", "b.docx"}

\* IngestionService.ingest_file up to _prepare_chunks, lines 44-70, for the
\* file with paragraphs f uploaded as name
IngestRun(f, name) ==
    LET docs == Parse(f)
        cs == SplitChunks(docs)
        prepared == PrepareChunks(cs, name, CalculateFileHash(f))
    IN  [docs |-> docs,
         chunks |-> cs,
         documents |-> prepared,
         ids |-> [i \in 1..Len(prepared) |-> prepared[i].chunk_uuid]]

\* ingest_file is a function of its arguments: the table of its calls
IngestRuns ==
    {[file |-> f, filename |-> name, run |-> IngestRun(f, name)] :
        f \in Files, name \in FileNames}

\* One IngestionService.ingest_file call
IngestFile ==
    \E call \in IngestRuns :
        /\ ingest_pc' = "prepared"
        /\ ing_filename' = call.filename
        /\ ing_file' = call.file
        /\ ing_docs' = call.run.docs
        /\ ing_chunks' = call.run.chunks
        /\ ing_documents' = call.run.documents
        /\ ing_ids' = call.run.ids
        /\ reingested' = /\ ingest_pc = "prepared"
                         /\ ing_file = call.file
                         /\ ing_filename # call.filename
        /\ UNCHANGED <<retrVars, rerankerVars, rerankCallVars, parseVars, bm25Vars,
                       serviceVars, questionVars>>

(***************************************************************************)
(* Actions of DocxParser.parse, one per iteration of its while loop.       *)
(***************************************************************************)
\* The paragraphs a parsed document may hold: a numbered heading, a markdown
\* heading that holds a pipe, a text line, a table row, a separator row and
\* a blank line
ParseLines ==
    {<<"1", ".", " ", "U+0410", "U+0411">>,
     <<"#", " ", "|">>,
     <<"t">>,
     <<"|", "a", "|">>,
     <<"|", "-", "|">>,
     <<" ">>}

ParseFiles == SeqUpTo(ParseLines, MaxParseLines)

\* The source indices of the blocks after the flush of the text buffer
FlushSrc(src, content_src) ==
    IF content_src # <<>> THEN Append(src, content_src) ELSE src

\* Lines 61-99: one iteration of the while loop
ScanLine ==
    /\ p_pc = "scan"
    /\ p_idx <= Len(p_lines)
    /\ LET line == Strip(p_lines[p_idx])
           flushed == Flush(p_documents, p_content, p_section)
           flushed_src == FlushSrc(p_src, p_content_src)
           new_idx == TableEnd(p_lines, p_idx + 1)
       IN  IF line = <<>>
           THEN /\ p_idx' = p_idx + 1
                /\ p_class' = [p_class EXCEPT ![p_idx] = "blank"]
                /\ UNCHANGED <<p_content, p_section, p_documents, p_content_src,
                               p_src>>
           ELSE IF IsTableStart(p_lines, p_idx)
           THEN /\ p_documents' =
                      Append(flushed,
                             CreateDocument(ExtractTable(p_lines, p_idx), "table",
                                            TRUE, p_section))
                /\ p_src' = Append(flushed_src,
                                   [k \in 1..(new_idx - p_idx) |-> p_idx + k - 1])
                /\ p_content' = <<>>
                /\ p_content_src' = <<>>
                /\ p_idx' = new_idx
                /\ p_class' = [k \in 1..Len(p_lines) |->
                                  IF k = p_idx THEN "table"
                                  ELSE IF k > p_idx /\ k < new_idx THEN "row"
                                  ELSE p_class[k]]
                /\ UNCHANGED p_section
           ELSE IF IsMainSection(line)
           THEN /\ p_documents' = flushed
                /\ p_src' = flushed_src
                /\ p_section' = line
                /\ p_content' = <<line>>
                /\ p_content_src' = <<p_idx>>
                /\ p_idx' = p_idx + 1
                /\ p_class' = [p_class EXCEPT ![p_idx] = "header"]
           ELSE /\ p_content' = Append(p_content, line)
                /\ p_content_src' = Append(p_content_src, p_idx)
                /\ p_idx' = p_idx + 1
                /\ p_class' = [p_class EXCEPT ![p_idx] = "text"]
                /\ UNCHANGED <<p_section, p_documents, p_src>>
    /\ UNCHANGED <<p_lines, p_pc, retrVars, rerankerVars, rerankCallVars,
                   ingestVars, bm25Vars, serviceVars,
                   questionVars>>

\* Lines 102-106: the flush after the loop and the return
FinalFlush ==
    /\ p_pc = "scan"
    /\ p_idx > Len(p_lines)
    /\ p_documents' = Flush(p_documents, p_content, p_section)
    /\ p_src' = FlushSrc(p_src, p_content_src)
    /\ p_content' = <<>>
    /\ p_content_src' = <<>>
    /\ p_pc' = "done"
    /\ UNCHANGED <<p_lines, p_idx, p_section, p_class, retrVars, rerankerVars,
                   rerankCallVars, ingestVars, bm25Vars, serviceVars,
                   questionVars>>

(***************************************************************************)
(* AsyncBM25Retriever: concurrent aretrieve and aadd_documents calls.      *)
(***************************************************************************)
Tasks == 1..NumTasks

NoTask == 0

\* during: for a vector search, the executor jobs that have been running
\* since the search began
IdleTask == [op |-> "none", new_docs |-> <<>>, pc |-> "idle", during |-> {}]

\* The documents an aadd_documents call may bring: none, or one chunk
AddableDocs == {d \in LexDocs : d.chunk_hash # NoHash /\ d.page_content = <<"a">>}

\* The batches an aadd_documents call may bring: none, one chunk with a
\* chunk_hash, or two different ones
HashedDocs == {d \in LexDocs : d.chunk_hash # NoHash}

NewDocLists ==
    {<<>>} \cup {<<d>> : d \in HashedDocs}
           \cup {<<d, e>> : <<d, e>> \in
                    {pair \in HashedDocs \X AddableDocs : pair[1] # pair[2]}}

\* The index BM25Retriever.from_documents builds: it holds the documents given
FromDocuments(documents) == documents

\* Mutant of Extend: the batch takes the place of the held corpus.
ExtendReplaces(documents, new_docs) == new_docs

\* self._documents.extend(new_docs), line 97
Extend(documents, new_docs) == documents \o new_docs

\* Mutant of LockIsFree: the lock is taken whether held or not.
LockAlwaysFree(holder) == TRUE

\* asyncio.Lock: acquire goes through only when no task holds the lock
LockIsFree(holder) == holder = NoTask

\* async with self._lock (lines 76, 92): the task gets the lock and hands its
\* job to the executor, or waits for the lock
EnterLock(t, op, new_docs) ==
    IF LockIsFree(lock_holder)
    THEN /\ lock_holder' = t
         /\ tasks' = [tasks EXCEPT ![t] = [op |-> op, new_docs |-> new_docs,
                                           pc |-> "executor", during |-> {}]]
    ELSE /\ tasks' = [tasks EXCEPT ![t] = [op |-> op, new_docs |-> new_docs,
                                           pc |-> "waiting", during |-> {}]]
         /\ UNCHANGED lock_holder

\* aretrieve(query) up to its first suspension: [] without a built index
CallRetrieve ==
    /\ \E t \in Tasks :
          /\ tasks[t].pc = "idle"
          /\ IF bm25_index = <<>>
             THEN /\ tasks' = [tasks EXCEPT ![t] = [op |-> "aretrieve",
                                                    new_docs |-> <<>>,
                                                    pc |-> "returned", during |-> {}]]
                  /\ UNCHANGED lock_holder
             ELSE EnterLock(t, "aretrieve", <<>>)
    /\ UNCHANGED <<bm25_documents, bm25_index, retrVars, rerankerVars,
                   rerankCallVars, ingestVars, parseVars, serviceVars,
                   questionVars>>

\* aadd_documents(new_docs) up to its first suspension: nothing to do for an
\* empty list
CallAddDocuments ==
    /\ \E t \in Tasks, new_docs \in NewDocLists :
          /\ tasks[t].pc = "idle"
          /\ IF new_docs = <<>>
             THEN /\ tasks' = [tasks EXCEPT ![t] = [op |-> "aadd_documents",
                                                    new_docs |-> new_docs,
                                                    pc |-> "returned", during |-> {}]]
                  /\ UNCHANGED lock_holder
             ELSE EnterLock(t, "aadd_documents", new_docs)
    /\ UNCHANGED <<bm25_documents, bm25_index, retrVars, rerankerVars,
                   rerankCallVars, ingestVars, parseVars, serviceVars,
                   questionVars>>

\* A task waiting in async with self._lock gets the lock
AcquireLock ==
    /\ \E t \in Tasks :
          /\ tasks[t].pc = "waiting"
          /\ LockIsFree(lock_holder)
          /\ lock_holder' = t
          /\ tasks' = [tasks EXCEPT ![t].pc = "executor"]
    /\ UNCHANGED <<bm25_documents, bm25_index, retrVars, rerankerVars,
                   rerankCallVars, ingestVars, parseVars, serviceVars,
                   questionVars>>

\* The executor finishes self.retriever.invoke(query) (lines 79-82), with a
\* result or an exception
SearchJobEnds ==
    /\ \E t \in Tasks :
          /\ tasks[t].pc = "executor"
          /\ tasks[t].op = "aretrieve"
          /\ \E outcome \in {"job_ok", "job_failed"} :
                tasks' = [tasks EXCEPT ![t].pc = outcome]
    /\ UNCHANGED <<bm25_documents, bm25_index, lock_holder, retrVars,
                   rerankerVars, rerankCallVars, ingestVars, parseVars, serviceVars,
                   questionVars>>

\* The executor finishes _update (lines 96-102): _documents is extended,
\* then the index is built again from it, unless from_documents raises
UpdateJobEnds ==
    /\ \E t \in Tasks :
          /\ tasks[t].pc = "executor"
          /\ tasks[t].op = "aadd_documents"
          /\ bm25_documents' = Extend(bm25_documents, tasks[t].new_docs)
          /\ \/ /\ bm25_index' =
                      FromDocuments(Extend(bm25_documents, tasks[t].new_docs))
                /\ tasks' = [tasks EXCEPT ![t].pc = "job_ok"]
             \/ /\ tasks' = [tasks EXCEPT ![t].pc = "job_failed"]
                /\ UNCHANGED bm25_index
    /\ UNCHANGED <<lock_holder, retrVars, rerankerVars, rerankCallVars,
                   ingestVars, parseVars, serviceVars,
                   questionVars>>

\* The task resumes after its job: it leaves async with, which releases the
\* lock, and returns or raises (lines 83-85, 109-111)
LeaveLock ==
    /\ \E t \in Tasks :
          /\ tasks[t].pc \in {"job_ok", "job_failed"}
          /\ lock_holder' = NoTask
          /\ tasks' = [tasks EXCEPT ![t].pc = IF tasks[t].pc = "job_ok"
                                              THEN "returned" ELSE "raised"]
    /\ UNCHANGED <<bm25_documents, bm25_index, retrVars, rerankerVars,
                   rerankCallVars, ingestVars, parseVars, serviceVars,
                   questionVars>>

\* task.cancel() reaches a task suspended in aretrieve or aadd_documents:
\* CancelledError is raised at its await and async with releases the lock if
\* the task holds it. A job already running in the executor is not stopped;
\* it goes on without its task.
CancelCall ==
    /\ \E t \in Tasks :
          /\ tasks[t].pc \in {"waiting", "executor", "job_ok", "job_failed"}
          /\ tasks' = [tasks EXCEPT ![t].pc = IF tasks[t].pc = "executor"
                                              THEN "abandoned" ELSE "cancelled"]
          /\ lock_holder' = IF lock_holder = t THEN NoTask ELSE lock_holder
    /\ UNCHANGED <<bm25_documents, bm25_index, retrVars, rerankerVars,
                   rerankCallVars, ingestVars, parseVars, serviceVars,
                   questionVars>>

\* The job of a cancelled task ends in the executor: a search gives its
\* result to nobody, _update has extended _documents and, unless
\* from_documents raised, assigned the new index
AbandonedJobEnds ==
    /\ \E t \in Tasks :
          /\ tasks[t].pc = "abandoned"
          /\ tasks' = [tasks EXCEPT ![t].pc = "cancelled"]
          /\ IF tasks[t].op = "aadd_documents"
             THEN /\ bm25_documents' = Extend(bm25_documents, tasks[t].new_docs)
                  /\ \/ bm25_index' =
                           FromDocuments(Extend(bm25_documents, tasks[t].new_docs))
                     \/ UNCHANGED bm25_index
             ELSE UNCHANGED <<bm25_documents, bm25_index>>
    /\ UNCHANGED <<lock_holder, retrVars, rerankerVars, rerankCallVars,
                   ingestVars, parseVars, serviceVars,
                   questionVars>>

\* Mutant of Dispatched: the job is run by the calling coroutine itself.
DispatchedInline == "loop"

\* loop.run_in_executor(None, job): the job runs in a thread of the default
\* executor while the calling task is suspended
Dispatched == "executor"

\* The jobs running now, in the executor or on the event loop
RunningJobs == {t \in Tasks : tasks[t].pc \in {"executor", "loop", "abandoned"}}

\* The event loop can run a task: no coroutine is in the middle of a
\* synchronous computation
LoopFree == \A t \in Tasks : tasks[t].pc # "loop"

\* Reranker.arerank(query, documents): _rerank_sync is handed to the executor
CallRerank ==
    /\ LoopFree
    /\ \E t \in Tasks :
          /\ tasks[t].pc = "idle"
          /\ tasks' = [tasks EXCEPT ![t] = [op |-> "arerank", new_docs |-> <<>>,
                                            pc |-> Dispatched, during |-> {}]]
    /\ UNCHANGED <<bm25_documents, bm25_index, lock_holder, retrVars,
                   rerankerVars, rerankCallVars, ingestVars, parseVars, serviceVars,
                   questionVars>>

\* _rerank_sync ends and arerank returns the ranked list
RerankJobEnds ==
    /\ \E t \in Tasks :
          /\ tasks[t].op = "arerank"
          /\ tasks[t].pc \in {"executor", "loop"}
          /\ tasks' = [tasks EXCEPT ![t].pc = "returned"]
    /\ UNCHANGED <<bm25_documents, bm25_index, lock_holder, retrVars,
                   rerankerVars, rerankCallVars, ingestVars, parseVars, serviceVars,
                   questionVars>>

\* VectorRetriever.aretrieve(query) of a request: the task is suspended in
\* await self.vector_store.aread(...)
CallVectorSearch ==
    /\ LoopFree
    /\ \E t \in Tasks :
          /\ tasks[t].pc = "idle"
          /\ tasks' = [tasks EXCEPT ![t] = [op |-> "vector_search",
                                            new_docs |-> <<>>, pc |-> "io",
                                            during |-> RunningJobs]]
    /\ UNCHANGED <<bm25_documents, bm25_index, lock_holder, retrVars,
                   rerankerVars, rerankCallVars, ingestVars, parseVars, serviceVars,
                   questionVars>>

\* The vector store has answered and the event loop resumes the task
VectorSearchEnds ==
    /\ LoopFree
    /\ \E t \in Tasks :
          /\ tasks[t].pc = "io"
          /\ tasks' = [tasks EXCEPT ![t].pc = "returned",
                                    ![t].during = tasks[t].during \cap RunningJobs]
    /\ UNCHANGED <<bm25_documents, bm25_index, lock_holder, retrVars,
                   rerankerVars, rerankCallVars, ingestVars, parseVars, serviceVars,
                   questionVars>>

(***************************************************************************)
(* The running service: lifespan, ingest_file on the two indexes, arun.    *)
(***************************************************************************)
NoLexical == [documents |-> <<>>, index |-> <<>>]

NoFile == <<<<"None">>>>

NoCounts == [file |-> NoFile, vec |-> 0, lex |-> 0]

NoQuestion == [vector_hits |-> <<>>, lexical_hits |-> <<>>, scores |-> <<>>]

RECURSIVE VectorUpsert(_, _, _)
\* self.store.aadd_documents(documents, ids): each point is written under its
\* id, over the point that had the id
VectorUpsert(index, documents, ids) ==
    IF documents = <<>> THEN index
    ELSE VectorUpsert(DictSet(index, Head(ids), Head(documents)),
                      Tail(documents), Tail(ids))

\* aget_all_documents, lines 162-173: a point read back as a Document whose
\* metadata is the whole payload, the chunk's own metadata nested inside it
PayloadDocument(doc) ==
    [page_content |-> doc.page_content, chunk_hash |-> NoHash, payload |-> doc]

AllDocuments(index) ==
    [i \in 1..Len(index) |-> PayloadDocument(DictValues(index)[i])]

\* The files uploaded to the running service: empty or of one paragraph
ServiceLines == {<<"x", " ", "y", " ", "x">>, <<"x", SoftHyphen, " ", "y">>}

ServiceRuns ==
    {call \in IngestRuns :
        /\ call.filename = "a.docx"
        /\ Len(call.file) <= 1
        /\ Range(call.file) \subseteq ServiceLines}

\* The collections the service may find at start-up: empty, or holding the
\* chunks of one file ingested by an earlier run
StoredIndexes ==
    {<<>>} \cup {VectorUpsert(<<>>, call.run.documents, call.run.ids) :
                    call \in ServiceRuns}

\* Entries of the collection and of the lexical corpus for the chunks docs
CountVec(index, docs) ==
    Cardinality({i \in 1..Len(index) :
                    \E j \in 1..Len(docs) : index[i][1] = docs[j].chunk_uuid})

CountLex(corpus, docs) ==
    Cardinality({i \in 1..Len(corpus) :
                    \E j \in 1..Len(docs) :
                        corpus[i].page_content = docs[j].page_content})

\* Mutant of AfterLexicalFailure: the vector write is undone.
RollbackAfterLexicalFailure(index, before) == before

\* ingest_file, lines 92-94: the exception is logged and raised again; the
\* points written to the collection stay
AfterLexicalFailure(index, before) == index

\* The answers of a search engine over docs: at most k documents, each once
Hits(docs, k) ==
    {h \in SeqUpTo(docs, k) : \A i, j \in 1..Len(h) : i # j => h[i] # h[j]}

\* HybridRetriever.aretrieve for a query the engines answer with V and L
HybridResult(V, L, m, t, scores) ==
    TopK(RerankSync(m, t, Candidates(FuseDocs(V, L)), scores))

\* self.retriever.aretrieve(query) in arun, by the retriever the pipeline holds
PipelineRetrieve(retriever, q, m, t) ==
    IF retriever = "VectorRetriever" THEN q.vector_hits
    ELSE HybridResult(q.vector_hits, q.lexical_hits, m, t, q.scores)

\* lifespan, lines 31-96: the corpus is read back, the Reranker is built
\* (start-up fails when its load() raises), the BM25 retriever is built only
\* over a non-empty corpus, and the pipeline is given the vector retriever
Startup ==
    /\ app_pc = "starting"
    /\ all_docs' = AllDocuments(vector_index)
    /\ \E outcome \in LoadOutcomes :
          LET eff == LoadEffect(None, None, outcome)
          IN  /\ model' = eff.model
              /\ tokenizer' = eff.tokenizer
              /\ load_raised' = eff.raised
              /\ load_outcome' = outcome
              /\ rstate' = IF eff.raised THEN "failed" ELSE "ready"
              /\ IF eff.raised
                 THEN /\ app_pc' = "failed"
                      /\ UNCHANGED <<bm25, bm25_documents, bm25_index,
                                     pipeline_retriever>>
                 ELSE /\ app_pc' = "serving"
                      /\ bm25' = IF AllDocuments(vector_index) # <<>>
                                 THEN "AsyncBM25Retriever" ELSE None
                      /\ bm25_documents' = AllDocuments(vector_index)
                      /\ bm25_index' = FromDocuments(AllDocuments(vector_index))
                      /\ pipeline_retriever' = "VectorRetriever"
    /\ UNCHANGED <<unloads, unload_raised, vec_docs, bm25_docs, merged_docs,
                   candidates, ranked_docs, result, pc, stage_calls, error,
                   rerankCallVars, ingestVars, parseVars, lock_holder, tasks,
                   vector_index, ing_stages, ing_error, vec_before, lex_before,
                   counts_prev, counts_last, question, evidence, ask_pc,
                   questionVars>>

\* lifespan, lines 102-112: reranker.unload() at shutdown
Shutdown ==
    /\ app_pc = "serving"
    /\ ingest_pc \in {"idle", "returned", "raised"}
    /\ ask_pc = "idle"
    /\ app_pc' = "stopped"
    /\ LET eff == UnloadEffect(model, tokenizer)
       IN  /\ model' = eff.model
           /\ tokenizer' = eff.tokenizer
           /\ unload_raised' = eff.raised
    /\ unloads' = Min(unloads + 1, MaxUnloads)
    /\ UNCHANGED <<rstate, load_raised, load_outcome, retrVars, rerankCallVars,
                   ingestVars, parseVars, bm25Vars, all_docs, vector_index,
                   pipeline_retriever, ing_stages, ing_error, vec_before,
                   lex_before, counts_prev, counts_last, question, evidence,
                   ask_pc,
                   questionVars>>

\* ingest_file, lines 44-74: the file is parsed and its chunks prepared, then
\* the vector write is awaited; a parse failure is raised to the caller
IngestBegin ==
    /\ app_pc = "serving"
    /\ ingest_pc \in {"idle", "returned", "raised"}
    /\ ask_pc = "idle"
    /\ vec_before' = vector_index
    /\ lex_before' = [documents |-> bm25_documents, index |-> bm25_index]
    /\ reingested' = FALSE
    /\ \E call \in ServiceRuns :
          /\ Len(bm25_documents) + Len(call.run.documents) <= MaxCorpus
          /\ ing_filename' = call.filename
          /\ ing_file' = call.file
          /\ \/ /\ ing_docs' = call.run.docs
                /\ ing_chunks' = call.run.chunks
                /\ ing_documents' = call.run.documents
                /\ ing_ids' = call.run.ids
                /\ ing_stages' = <<"parse", "vector">>
                /\ ing_error' = "none"
                /\ ingest_pc' = "vector"
             \/ /\ ing_docs' = <<>>
                /\ ing_chunks' = <<>>
                /\ ing_documents' = <<>>
                /\ ing_ids' = <<>>
                /\ ing_stages' = <<"parse">>
                /\ ing_error' = "parse"
                /\ ingest_pc' = "raised"
    /\ UNCHANGED <<retrVars, rerankerVars, rerankCallVars, parseVars, bm25Vars,
                   app_pc, all_docs, vector_index, pipeline_retriever,
                   counts_prev, counts_last, question, evidence, ask_pc,
                   questionVars>>

\* The counts kept when ingest_file returns
ReturnedCounts(index, corpus) ==
    [file |-> ing_file,
     vec |-> CountVec(index, ing_documents),
     lex |-> CountLex(corpus, ing_documents)]

\* ingest_file, lines 74-90: the vector write ends; on success the lexical
\* write is awaited when a BM25 retriever is held and chunks were added,
\* else the call returns; on failure some of the points may have been written
VectorWriteEnds ==
    /\ ingest_pc = "vector"
    /\ \/ /\ vector_index' = VectorUpsert(vector_index, ing_documents, ing_ids)
          /\ IF bm25 # None /\ ing_documents # <<>>
             THEN /\ ing_stages' = Append(ing_stages, "bm25")
                  /\ ingest_pc' = "lexical"
                  /\ UNCHANGED <<counts_prev, counts_last>>
             ELSE /\ ingest_pc' = "returned"
                  /\ counts_prev' = counts_last
                  /\ counts_last' =
                        ReturnedCounts(VectorUpsert(vector_index, ing_documents,
                                                    ing_ids), bm25_documents)
                  /\ UNCHANGED ing_stages
          /\ UNCHANGED ing_error
       \/ /\ \E k \in 0..Len(ing_documents) :
                vector_index' = VectorUpsert(vector_index,
                                             SubSeq(ing_documents, 1, k),
                                             SubSeq(ing_ids, 1, k))
          /\ ing_error' = "vector"
          /\ ingest_pc' = "raised"
          /\ UNCHANGED <<ing_stages, counts_prev, counts_last>>
    /\ UNCHANGED <<ing_filename, ing_file, ing_docs, ing_chunks, ing_documents,
                   ing_ids, reingested, retrVars, rerankerVars, rerankCallVars,
                   parseVars, bm25Vars, app_pc, all_docs, pipeline_retriever,
                   vec_before, lex_before, question, evidence, ask_pc,
                   questionVars>>

\* ingest_file, lines 76-94: bm25_retriever.aadd_documents(added_docs) ends;
\* _documents is extended before the index is built again, so it stays
\* extended when the build raises
LexicalWriteEnds ==
    /\ ingest_pc = "lexical"
    /\ bm25_documents' = bm25_documents \o ing_documents
    /\ \/ /\ bm25_index' = FromDocuments(bm25_documents \o ing_documents)
          /\ ingest_pc' = "returned"
          /\ counts_prev' = counts_last
          /\ counts_last' = ReturnedCounts(vector_index,
                                           bm25_documents \o ing_documents)
          /\ UNCHANGED <<ing_error, vector_index>>
       \/ /\ ing_error' = "bm25"
          /\ ingest_pc' = "raised"
          /\ vector_index' = AfterLexicalFailure(vector_index, vec_before)
          /\ UNCHANGED <<bm25_index, counts_prev, counts_last>>
    /\ UNCHANGED <<ing_filename, ing_file, ing_docs, ing_chunks, ing_documents,
                   ing_ids, reingested, retrVars, rerankerVars, rerankCallVars,
                   parseVars, lock_holder, tasks, app_pc, all_docs,
                   pipeline_retriever, ing_stages, vec_before, lex_before,
                   question, evidence, ask_pc,
                   questionVars>>

\* RAGPipeline.arun(query), lines 29-50: the query is given by what the two
\* engines find for it and the scores the reranker gives to the candidates
Ask ==
    /\ app_pc = "serving"
    /\ ingest_pc \in {"idle", "returned", "raised"}
    /\ ask_pc = "idle"
    /\ \E V \in Hits(Range(DictValues(vector_index)), vector_k),
          L \in Hits(Range(bm25_index), bm25_k) :
          \E scores \in ScoreLists(model, tokenizer, Candidates(FuseDocs(V, L))) :
             LET q == [vector_hits |-> V, lexical_hits |-> L, scores |-> scores]
             IN  /\ question' = q
                 /\ evidence' = PipelineRetrieve(pipeline_retriever, q, model,
                                                 tokenizer)
    /\ ask_pc' = "answered"
    /\ UNCHANGED <<retrVars, rerankerVars, rerankCallVars, ingestVars, parseVars,
                   bm25Vars, app_pc, all_docs, vector_index, pipeline_retriever,
                   ing_stages, ing_error, vec_before, lex_before, counts_prev,
                   counts_last,
                   questionVars>>

\* The caller of arun has taken the answer.
AnswerTaken ==
    /\ ask_pc = "answered"
    /\ question' = NoQuestion
    /\ evidence' = <<>>
    /\ ask_pc' = "idle"
    /\ UNCHANGED <<retrVars, rerankerVars, rerankCallVars, ingestVars, parseVars,
                   bm25Vars, app_pc, all_docs, vector_index, pipeline_retriever,
                   ing_stages, ing_error, vec_before, lex_before, counts_prev,
                   counts_last,
                   questionVars>>

(***************************************************************************)
(* The questions router: ask_question, process_question and the records    *)
(* kept in Redis.                                                          *)
(***************************************************************************)
Questions == 1..MaxQuestions

\* redis.get of a key that was never set
NoRecord == [status |-> "absent", answer |-> None, error |-> None]

NoFields == [status |-> "none", answer |-> None, error |-> None]

NoQuestionTask == [pc |-> "none", fields |-> NoFields, payload |-> NoRecord]

\* What arun gives: result.answer, or the text of the exception it raises
Answers == {"answer"}

ErrorTexts == {"error text"}

\* payload of ask_question, lines 23-29; the record holds no error key
ProcessingPayload == [status |-> "processing", answer |-> None, error |-> None]

\* The keyword arguments of the two update_question calls, lines 38-50
DoneFields(answer) == [status |-> "done", answer |-> answer, error |-> None]

ErrorFields(e) == [status |-> "error", answer |-> None, error |-> e]

\* Mutant of Updated: the stored record is written back as it was read.
UpdatedNothing(payload, fields) == payload

\* payload.update(fields), line 50: the keys given replace those of the record
Updated(payload, fields) ==
    [status |-> fields.status,
     answer |-> IF fields.status = "done" THEN fields.answer ELSE payload.answer,
     error |-> IF fields.status = "error" THEN fields.error ELSE payload.error]

\* ask_question, line 21: redis.incr gives the question its id
GenerateQuestionId ==
    /\ q_counter < MaxQuestions
    /\ q_counter' = q_counter + 1
    /\ q_tasks' = [q_tasks EXCEPT ![q_counter + 1].pc = "id_taken"]
    /\ UNCHANGED <<q_store, retrVars, rerankerVars, rerankCallVars, ingestVars,
                   parseVars, bm25Vars, serviceVars>>

\* ask_question, lines 31-58: the record is stored as "processing", the
\* process_question task is created and the handler returns; the task
\* runs up to its await of pipeline.arun
SetQuestion ==
    /\ \E q \in Questions :
          /\ q_tasks[q].pc = "id_taken"
          /\ q_store' = [q_store EXCEPT ![q] = ProcessingPayload]
          /\ q_tasks' = [q_tasks EXCEPT ![q].pc = "pipeline"]
    /\ UNCHANGED <<q_counter, retrVars, rerankerVars, rerankCallVars, ingestVars,
                   parseVars, bm25Vars, serviceVars>>

\* process_question, lines 34-50: arun returns or raises, and the task
\* calls update_question, which runs up to its await of redis.get
PipelineEnds ==
    /\ \E q \in Questions :
          /\ q_tasks[q].pc = "pipeline"
          /\ \E fields \in {DoneFields(a) : a \in Answers}
                                \cup {ErrorFields(e) : e \in ErrorTexts} :
                q_tasks' = [q_tasks EXCEPT ![q].pc = "update_get",
                                           ![q].fields = fields]
    /\ UNCHANGED <<q_counter, q_store, retrVars, rerankerVars, rerankCallVars,
                   ingestVars, parseVars, bm25Vars, serviceVars>>

\* update_question, lines 43-50: the record is read; without one the call
\* returns, otherwise the task goes on to its await of redis.set
UpdateGet ==
    /\ \E q \in Questions :
          /\ q_tasks[q].pc = "update_get"
          /\ q_tasks' = IF q_store[q] = NoRecord
                        THEN [q_tasks EXCEPT ![q].pc = "finished"]
                        ELSE [q_tasks EXCEPT ![q].pc = "update_set",
                                             ![q].payload = q_store[q]]
    /\ UNCHANGED <<q_counter, q_store, retrVars, rerankerVars, rerankCallVars,
                   ingestVars, parseVars, bm25Vars, serviceVars>>

\* update_question, line 52: the updated record is stored and the task ends
UpdateSet ==
    /\ \E q \in Questions :
          /\ q_tasks[q].pc = "update_set"
          /\ q_store' = [q_store EXCEPT
                            ![q] = Updated(q_tasks[q].payload, q_tasks[q].fields)]
          /\ q_tasks' = [q_tasks EXCEPT ![q].pc = "finished"]
    /\ UNCHANGED <<q_counter, retrVars, rerankerVars, rerankCallVars, ingestVars,
                   parseVars, bm25Vars, serviceVars>>

(***************************************************************************)
(* Actions of the Reranker.                                                *)
(***************************************************************************)
\* Reranker.__init__: the fields start as None and load() runs; when load()
\* raises, the constructor raises and no Reranker object exists.
Construct ==
    /\ rstate = "new"
    /\ rr_pc = "idle"
    /\ \E outcome \in LoadOutcomes :
          LET eff == LoadEffect(None, None, outcome)
          IN  /\ model' = eff.model
              /\ tokenizer' = eff.tokenizer
              /\ load_raised' = eff.raised
              /\ load_outcome' = outcome
              /\ rstate' = IF eff.raised THEN "failed" ELSE "ready"
    /\ unloads' = 0
    /\ UNCHANGED <<unload_raised, retrVars, rerankCallVars, ingestVars, parseVars, bm25Vars, serviceVars,
                   questionVars>>

\* Reranker.load() on an existing object
Load ==
    /\ rstate = "ready"
    /\ rr_pc = "idle"
    /\ \E outcome \in LoadOutcomes :
          LET eff == LoadEffect(model, tokenizer, outcome)
          IN  /\ model' = eff.model
              /\ tokenizer' = eff.tokenizer
              /\ load_raised' = eff.raised
              /\ load_outcome' = outcome
    /\ unloads' = 0
    /\ UNCHANGED <<rstate, unload_raised, retrVars, rerankCallVars, ingestVars, parseVars, bm25Vars, serviceVars,
                   questionVars>>

\* Reranker.unload()
Unload ==
    /\ rstate = "ready"
    /\ rr_pc = "idle"
    /\ LET eff == UnloadEffect(model, tokenizer)
       IN  /\ model' = eff.model
           /\ tokenizer' = eff.tokenizer
           /\ unload_raised' = eff.raised
    /\ unloads' = Min(unloads + 1, MaxUnloads)
    /\ UNCHANGED <<rstate, load_raised, load_outcome, retrVars, rerankCallVars,
                   ingestVars, parseVars, bm25Vars, serviceVars,
                   questionVars>>

\* Reranker.arerank(query, documents): one _rerank_sync call in the executor
Rerank ==
    /\ rstate = "ready"
    /\ rr_pc = "idle"
    /\ \E documents \in SeqUpTo(VecDocs, MaxCand) :
          \E scores \in ScoreLists(model, tokenizer, documents) :
             /\ rr_documents' = documents
             /\ rr_scores' = scores
             /\ rr_out' = RerankSync(model, tokenizer, documents, scores)
    /\ rr_pc' = "returned"
    /\ UNCHANGED <<rerankerVars, retrVars, ingestVars, parseVars, bm25Vars, serviceVars,
                   questionVars>>

\* The caller of arerank has taken the returned list.
RerankTaken ==
    /\ rr_pc = "returned"
    /\ rr_documents' = <<>>
    /\ rr_scores' = <<>>
    /\ rr_out' = <<>>
    /\ rr_pc' = "idle"
    /\ UNCHANGED <<rerankerVars, retrVars, ingestVars, parseVars, bm25Vars, serviceVars,
                   questionVars>>

(***************************************************************************)
(* Actions of HybridRetriever.aretrieve, one per await.                    *)
(***************************************************************************)
\* Mutant of OnStageError: the error is swallowed and the call goes on.
OnStageErrorContinue(stage) ==
    [pc |-> IF stage = "vector" THEN "bm25"
            ELSE IF stage = "bm25" THEN "rerank" ELSE "done",
     error |-> stage]

\* lines 180-182: an exception of a stage is logged and raised again, which
\* ends the call
OnStageError(stage) == [pc |-> "raised", error |-> stage]

\* line 147: vec_docs = await self.vector_retriever.aretrieve(query)
VectorSearch ==
    /\ pc = "vector"
    /\ stage_calls' = Append(stage_calls, "vector")
    /\ \/ /\ \E V \in SeqUpTo(VecDocs, vector_k) : vec_docs' = V
          /\ pc' = "bm25"
          /\ UNCHANGED error
       \/ /\ pc' = OnStageError("vector").pc
          /\ error' = OnStageError("vector").error
          /\ UNCHANGED vec_docs
    /\ UNCHANGED <<bm25_docs, merged_docs, candidates, ranked_docs, result, bm25,
                   rerankerVars, rerankCallVars, ingestVars, parseVars, bm25Vars, serviceVars,
                   questionVars>>

\* lines 150-164: the lexical search, not invoked when no BM25 retriever is
\* held, then the fusion and the cut to pre_rerank_k
LexicalSearchAndFuse ==
    /\ pc = "bm25"
    /\ \/ /\ bm25 = None
          /\ bm25_docs' = <<>>
          /\ merged_docs' = FuseDocs(vec_docs, <<>>)
          /\ candidates' = Candidates(FuseDocs(vec_docs, <<>>))
          /\ pc' = "rerank"
          /\ UNCHANGED <<stage_calls, error>>
       \/ /\ bm25 # None
          /\ stage_calls' = Append(stage_calls, "bm25")
          /\ \E L \in SeqUpTo(LexDocs, bm25_k) :
                /\ bm25_docs' = L
                /\ merged_docs' = FuseDocs(vec_docs, L)
                /\ candidates' = Candidates(FuseDocs(vec_docs, L))
          /\ pc' = "rerank"
          /\ UNCHANGED error
       \/ /\ bm25 # None
          /\ stage_calls' = Append(stage_calls, "bm25")
          /\ pc' = OnStageError("bm25").pc
          /\ error' = OnStageError("bm25").error
          /\ UNCHANGED <<bm25_docs, merged_docs, candidates>>
    /\ UNCHANGED <<vec_docs, ranked_docs, result, bm25, rerankerVars,
                   rerankCallVars, ingestVars, parseVars, bm25Vars, serviceVars,
                   questionVars>>

\* lines 171-178: ranked_docs = await self.reranker.arerank(query, candidates)
\* and return ranked_docs[:self.top_k]
RerankAndReturn ==
    /\ pc = "rerank"
    /\ stage_calls' = Append(stage_calls, "rerank")
    /\ \/ /\ \E scores \in ScoreLists(model, tokenizer, candidates) :
                LET ranked == RerankSync(model, tokenizer, candidates, scores)
                IN  /\ rr_documents' = candidates
                    /\ rr_scores' = scores
                    /\ rr_out' = ranked
                    /\ rr_pc' = "returned"
                    /\ ranked_docs' = ranked
                    /\ result' = TopK(ranked)
          /\ pc' = "done"
          /\ UNCHANGED error
       \/ /\ pc' = OnStageError("rerank").pc
          /\ error' = OnStageError("rerank").error
          /\ UNCHANGED <<ranked_docs, result, rerankCallVars>>
    /\ UNCHANGED <<vec_docs, bm25_docs, merged_docs, candidates, bm25,
                   rerankerVars, ingestVars, parseVars, bm25Vars, serviceVars,
                   questionVars>>

(***************************************************************************)
(* Specifications.                                                         *)
(***************************************************************************)
NoRetrieval ==
    /\ vec_docs = <<>>
    /\ bm25_docs = <<>>
    /\ merged_docs = <<>>
    /\ candidates = <<>>
    /\ ranked_docs = <<>>
    /\ result = <<>>
    /\ stage_calls = <<>>
    /\ error = "none"

NoIngestion ==
    /\ ingest_pc = "idle"
    /\ ing_filename = ""
    /\ ing_file = <<>>
    /\ ing_docs = <<>>
    /\ ing_chunks = <<>>
    /\ ing_documents = <<>>
    /\ ing_ids = <<>>
    /\ reingested = FALSE

NoParse ==
    /\ p_lines = <<>>
    /\ p_idx = 1
    /\ p_content = <<>>
    /\ p_section = NoSection
    /\ p_documents = <<>>
    /\ p_pc = "off"
    /\ p_class = <<>>
    /\ p_content_src = <<>>
    /\ p_src = <<>>

NoBM25Calls ==
    /\ lock_holder = NoTask
    /\ tasks = [t \in Tasks |-> IdleTask]

\* The corpus of the AsyncBM25Retriever held: empty when none is held
BM25Corpus ==
    /\ bm25_documents \in
          IF bm25 = None THEN {<<>>}
          ELSE {docs \in SeqUpTo(AddableDocs, 1) : docs # <<>>}
    /\ bm25_index = FromDocuments(bm25_documents)

NoService ==
    /\ app_pc = "off"
    /\ all_docs = <<>>
    /\ vector_index = <<>>
    /\ pipeline_retriever = None
    /\ ing_stages = <<>>
    /\ ing_error = "none"
    /\ vec_before = <<>>
    /\ lex_before = NoLexical
    /\ counts_prev = NoCounts
    /\ counts_last = NoCounts
    /\ question = NoQuestion
    /\ evidence = <<>>
    /\ ask_pc = "idle"

NoQuestions ==
    /\ q_counter = 0
    /\ q_store = [q \in Questions |-> NoRecord]
    /\ q_tasks = [q \in Questions |-> NoQuestionTask]

NoRerankCall ==
    /\ rr_documents = <<>>
    /\ rr_scores = <<>>
    /\ rr_out = <<>>
    /\ rr_pc = "idle"

\* The Reranker on its own: construction, load, unload and rerank calls.
InitRerank ==
    /\ rstate = "new"
    /\ model = None
    /\ tokenizer = None
    /\ load_raised = FALSE
    /\ load_outcome = "none"
    /\ unloads = 0
    /\ unload_raised = FALSE
    /\ NoRerankCall
    /\ NoQuestions
    /\ NoRetrieval
    /\ bm25 = None
    /\ NoIngestion
    /\ NoParse
    /\ NoBM25Calls
    /\ NoService
    /\ BM25Corpus
    /\ pc = "off"

NextRerank == Construct \/ Load \/ Unload \/ Rerank \/ RerankTaken

SpecRerank == InitRerank /\ [][NextRerank]_vars

\* The fusion on its own: lines 158-163 of aretrieve applied to two lists.
Fuse ==
    /\ pc = "fuse"
    /\ merged_docs' = FuseDocs(vec_docs, bm25_docs)
    /\ pc' = "fused"
    /\ UNCHANGED <<vec_docs, bm25_docs, candidates, ranked_docs, result,
                   stage_calls, error, bm25, rerankerVars, rerankCallVars,
                   ingestVars, parseVars, bm25Vars, serviceVars,
                   questionVars>>

InitFusion ==
    /\ pc = "fuse"
    /\ vec_docs \in SeqUpTo(VecDocs, MaxVec)
    /\ bm25_docs \in SeqUpTo(LexDocs, MaxLex)
    /\ merged_docs = <<>>
    /\ candidates = <<>>
    /\ ranked_docs = <<>>
    /\ result = <<>>
    /\ stage_calls = <<>>
    /\ error = "none"
    /\ bm25 = "AsyncBM25Retriever"
    /\ NoRerankCall
    /\ NoQuestions
    /\ NoIngestion
    /\ NoParse
    /\ NoBM25Calls
    /\ NoService
    /\ BM25Corpus
    /\ rstate = "ready"
    /\ load_raised = FALSE
    /\ load_outcome = "ok"
    /\ unloads = 0
    /\ unload_raised = FALSE
    /\ model = Model
    /\ tokenizer = Tokenizer

NextFusion == Fuse

SpecFusion == InitFusion /\ [][NextFusion]_vars

\* Ingestions one after the other.
InitIngest ==
    /\ bm25 = None
    /\ NoIngestion
    /\ NoParse
    /\ NoBM25Calls
    /\ NoService
    /\ BM25Corpus
    /\ NoRetrieval
    /\ NoRerankCall
    /\ NoQuestions
    /\ pc = "off"
    /\ rstate = "ready"
    /\ load_raised = FALSE
    /\ load_outcome = "ok"
    /\ unloads = 0
    /\ unload_raised = FALSE
    /\ model = Model
    /\ tokenizer = Tokenizer

NextIngest == IngestFile

SpecIngest == InitIngest /\ [][NextIngest]_vars

\* One DocxParser.parse call on a document.
InitParse ==
    /\ bm25 = None
    /\ \E paragraphs \in ParseFiles :
          /\ p_lines = SplitLines(paragraphs)
          /\ p_class = [k \in 1..(Len(paragraphs) + 1) |-> "unseen"]
    /\ p_idx = 1
    /\ p_content = <<>>
    /\ p_section = NoSection
    /\ p_documents = <<>>
    /\ p_pc = "scan"
    /\ p_content_src = <<>>
    /\ p_src = <<>>
    /\ NoBM25Calls
    /\ NoService
    /\ BM25Corpus
    /\ NoIngestion
    /\ NoRetrieval
    /\ NoRerankCall
    /\ NoQuestions
    /\ pc = "off"
    /\ rstate = "ready"
    /\ load_raised = FALSE
    /\ load_outcome = "ok"
    /\ unloads = 0
    /\ unload_raised = FALSE
    /\ model = Model
    /\ tokenizer = Tokenizer

NextParse == ScanLine \/ FinalFlush

SpecParse == InitParse /\ [][NextParse]_vars

\* Concurrent calls on one AsyncBM25Retriever, built from a corpus or empty.
InitBM25 ==
    /\ bm25 = "AsyncBM25Retriever"
    /\ bm25_documents \in SeqUpTo(AddableDocs, 1)
    /\ bm25_index = FromDocuments(bm25_documents)
    /\ NoBM25Calls
    /\ NoService
    /\ NoParse
    /\ NoIngestion
    /\ NoRetrieval
    /\ NoRerankCall
    /\ NoQuestions
    /\ pc = "off"
    /\ rstate = "ready"
    /\ load_raised = FALSE
    /\ load_outcome = "ok"
    /\ unloads = 0
    /\ unload_raised = FALSE
    /\ model = Model
    /\ tokenizer = Tokenizer

NextBM25 ==
    \/ CallRetrieve
    \/ CallAddDocuments
    \/ AcquireLock
    \/ SearchJobEnds
    \/ UpdateJobEnds
    \/ LeaveLock

SpecBM25 == InitBM25 /\ [][NextBM25]_vars

\* The same calls when the tasks awaiting them may be cancelled.
NextCancel ==
    \/ CallRetrieve
    \/ CallAddDocuments
    \/ AcquireLock
    \/ SearchJobEnds
    \/ UpdateJobEnds
    \/ LeaveLock
    \/ CancelCall
    \/ AbandonedJobEnds

SpecCancel == InitBM25 /\ [][NextCancel]_vars

\* Requests on one event loop: reranks, ingestions' rebuilds and vector
\* searches of different tasks.
NextLoop ==
    \/ CallRerank
    \/ RerankJobEnds
    \/ CallVectorSearch
    \/ VectorSearchEnds
    \/ CallAddDocuments
    \/ AcquireLock
    \/ UpdateJobEnds
    \/ LeaveLock

SpecLoop == InitBM25 /\ [][NextLoop]_vars

\* Questions submitted to the running service.
InitQuestions == InitRerank

NextQuestions ==
    \/ GenerateQuestionId
    \/ SetQuestion
    \/ PipelineEnds
    \/ UpdateGet
    \/ UpdateSet

\* The event loop runs every task that is ready: a process_question task
\* whose Redis call has been answered is resumed.
SpecQuestions ==
    /\ InitQuestions
    /\ [][NextQuestions]_vars
    /\ WF_vars(UpdateGet)
    /\ WF_vars(UpdateSet)

\* The service from its start-up on, over an empty or a stored collection.
InitService ==
    /\ app_pc = "starting"
    /\ vector_index \in StoredIndexes
    /\ all_docs = <<>>
    /\ pipeline_retriever = None
    /\ ing_stages = <<>>
    /\ ing_error = "none"
    /\ vec_before = <<>>
    /\ lex_before = NoLexical
    /\ counts_prev = NoCounts
    /\ counts_last = NoCounts
    /\ question = NoQuestion
    /\ evidence = <<>>
    /\ ask_pc = "idle"
    /\ bm25 = None
    /\ bm25_documents = <<>>
    /\ bm25_index = <<>>
    /\ NoBM25Calls
    /\ NoParse
    /\ NoIngestion
    /\ NoRetrieval
    /\ NoRerankCall
    /\ NoQuestions
    /\ pc = "off"
    /\ rstate = "new"
    /\ model = None
    /\ tokenizer = None
    /\ load_raised = FALSE
    /\ load_outcome = "none"
    /\ unloads = 0
    /\ unload_raised = FALSE

NextService ==
    \/ Startup
    \/ Shutdown
    \/ IngestBegin
    \/ VectorWriteEnds
    \/ LexicalWriteEnds

SpecService == InitService /\ [][NextService]_vars

\* Questions put to the service after its start-up.
NextAsk == Startup \/ Ask \/ AnswerTaken

SpecAsk == InitService /\ [][NextAsk]_vars

\* One aretrieve call, with the Reranker in a state its life cycle reaches.
ReadyRerankerStates ==
    {[model |-> Model, tokenizer |-> Tokenizer, load_outcome |-> "ok", unloads |-> 0],
     [model |-> Model, tokenizer |-> None, load_outcome |-> "tokenizer_fails",
      unloads |-> 0],
     [model |-> None, tokenizer |-> None, load_outcome |-> "ok", unloads |-> 1]}

Init ==
    /\ pc = "vector"
    /\ NoRetrieval
    /\ bm25 \in {None, "AsyncBM25Retriever"}
    /\ NoRerankCall
    /\ NoQuestions
    /\ NoIngestion
    /\ NoParse
    /\ NoBM25Calls
    /\ NoService
    /\ BM25Corpus
    /\ rstate = "ready"
    /\ load_raised = FALSE
    /\ unload_raised = FALSE
    /\ \E rs \in ReadyRerankerStates :
          /\ model = rs.model
          /\ tokenizer = rs.tokenizer
          /\ load_outcome = rs.load_outcome
          /\ unloads = rs.unloads

Next == VectorSearch \/ LexicalSearchAndFuse \/ RerankAndReturn

Spec == Init /\ [][Next]_vars

(***************************************************************************)
(* Properties of the fusion (SpecFusion).                                  *)
(***************************************************************************)
KeysOf(docs) == {FusionKey(docs[i]) : i \in 1..Len(docs)}

\* The last record of docs filed under key k
LastWithKey(docs, k) ==
    docs[CHOOSE i \in 1..Len(docs) :
            /\ FusionKey(docs[i]) = k
            /\ \A j \in (i + 1)..Len(docs) : FusionKey(docs[j]) # k]

\* The index of the first record of docs filed under key k
FirstPos(docs, k) ==
    CHOOSE i \in 1..Len(docs) :
        /\ FusionKey(docs[i]) = k
        /\ \A j \in 1..(i - 1) : FusionKey(docs[j]) # k

\* C1: the fused list holds exactly one entry per distinct fusion key of
\* V and L: its length is the number of distinct keys, and every key
\* (those in both lists included) is the key of exactly one entry.
C1_DedupCorrectness ==
    pc = "fused" =>
        /\ Len(merged_docs) = Cardinality(KeysOf(vec_docs) \cup KeysOf(bm25_docs))
        /\ \A k \in KeysOf(vec_docs) \cup KeysOf(bm25_docs) :
              Cardinality({i \in 1..Len(merged_docs) :
                              FusionKey(merged_docs[i]) = k}) = 1

\* A fusion of lists that repeat a key inside V, share a key between V and L
C1_Witness ==
    /\ pc = "fused"
    /\ Len(vec_docs) = 3
    /\ Cardinality(KeysOf(vec_docs)) = 2
    /\ KeysOf(vec_docs) \cap KeysOf(bm25_docs) # {}
    /\ Len(merged_docs) = 3

\* C2: for a key in both V and L the fused record is the lexical copy,
\* never the vector copy; for a key in one list only it is that list's copy.
C2_FusionPrecedence ==
    pc = "fused" =>
        \A i \in 1..Len(merged_docs) :
            LET k == FusionKey(merged_docs[i])
            IN  IF k \in KeysOf(bm25_docs)
                THEN /\ merged_docs[i] = LastWithKey(bm25_docs, k)
                     /\ merged_docs[i].origin = "bm25"
                ELSE /\ merged_docs[i] = LastWithKey(vec_docs, k)
                     /\ merged_docs[i].origin = "vector"

\* A fusion in which a shared key sits in a slot before a vector-only key
C2_Witness ==
    /\ pc = "fused"
    /\ Len(merged_docs) >= 3
    /\ FusionKey(merged_docs[1]) \in KeysOf(vec_docs) \cap KeysOf(bm25_docs)
    /\ merged_docs[1].origin = "bm25"
    /\ FusionKey(merged_docs[2]) \notin KeysOf(bm25_docs)
    /\ merged_docs[2].origin = "vector"
    /\ FusionKey(merged_docs[3]) \notin KeysOf(vec_docs)

\* C3: the fused list is in first-insertion order over V followed by L (the
\* keys of V in V's order, then the keys only in L in L's order); a key
\* overwritten by the lexical copy stays in the slot of its first appearance.
C3_FirstInsertionOrder ==
    pc = "fused" =>
        \A i, j \in 1..Len(merged_docs) :
            i < j => FirstPos(vec_docs \o bm25_docs, FusionKey(merged_docs[i]))
                        < FirstPos(vec_docs \o bm25_docs, FusionKey(merged_docs[j]))

\* V = [A, B, C] and L = [B, D] fused to [A, B, C, D], B being L's copy
C3_Witness ==
    /\ pc = "fused"
    /\ Len(vec_docs) = 3
    /\ Len(bm25_docs) = 2
    /\ Cardinality(KeysOf(vec_docs)) = 3
    /\ FusionKey(bm25_docs[1]) = FusionKey(vec_docs[2])
    /\ FusionKey(bm25_docs[2]) \notin KeysOf(vec_docs)
    /\ merged_docs = <<vec_docs[1], bm25_docs[1], vec_docs[3], bm25_docs[2]>>

(***************************************************************************)
(* Properties of rerank (SpecRerank).                                      *)
(***************************************************************************)
IndexPermutations(n) ==
    {p \in [1..n -> 1..n] : \A i, j \in 1..n : i # j => p[i] # p[j]}

\* C4: a loaded reranker returns the stable descending sort of its input:
\* a permutation of the input (nothing dropped or repeated, [] for []),
\* scores non-increasing, equal scores in input order.
C4_StableDescendingSort ==
    (rr_pc = "returned" /\ model # None /\ tokenizer # None) =>
        /\ Len(rr_out) = Len(rr_documents)
        /\ \E p \in IndexPermutations(Len(rr_documents)) :
              /\ \A i \in 1..Len(rr_out) : rr_out[i] = rr_documents[p[i]]
              /\ \A i, j \in 1..Len(rr_out) :
                    i < j => \/ rr_scores[p[i]] > rr_scores[p[j]]
                             \/ /\ rr_scores[p[i]] = rr_scores[p[j]]
                                /\ p[i] < p[j]

\* A loaded call that moves the last candidate to the front and keeps two
\* different candidates of equal score in their input order
C4_Witness ==
    /\ rr_pc = "returned"
    /\ model # None
    /\ tokenizer # None
    /\ Len(rr_documents) = 3
    /\ rr_scores[1] = rr_scores[2]
    /\ rr_scores[3] > rr_scores[1]
    /\ rr_documents[1] # rr_documents[2]
    /\ rr_out = <<rr_documents[3], rr_documents[1], rr_documents[2]>>

\* C5: with the model or the tokenizer absent, rerank returns its input
\* unchanged: the same elements in the same order, for every list.
C5_PassThroughWhenNotLoaded ==
    (rr_pc = "returned" /\ (model = None \/ tokenizer = None)) =>
        rr_out = rr_documents

\* A call after unload on three candidates
C5_Witness ==
    /\ rr_pc = "returned"
    /\ model = None
    /\ tokenizer = None
    /\ rstate = "ready"
    /\ Len(rr_documents) = 3
    /\ rr_out = rr_documents

(***************************************************************************)
(* Properties of one aretrieve call (Spec).                                *)
(***************************************************************************)
\* C6: aretrieve returns the first min(top_k, n) items of the reranked
\* list of n items, in reranked order.
C6_TopKTruncation ==
    pc = "done" =>
        /\ Len(result) = Min(top_k, Len(ranked_docs))
        /\ \A i \in 1..Len(result) : result[i] = ranked_docs[i]

\* A call whose reranked list is longer than top_k and was reordered
C6_Witness ==
    /\ pc = "done"
    /\ Len(ranked_docs) > top_k
    /\ ranked_docs # candidates
    /\ Len(result) = top_k
    /\ result[1] = ranked_docs[1]

\* C7: the reranker gets the first pre_rerank_k fused entries in fusion
\* order (all when fewer), never more, and a fused entry at a later
\* position never reaches the result.
C7_PreRerankCut ==
    pc = "done" =>
        /\ rr_documents = candidates
        /\ Len(candidates) = Min(pre_rerank_k, Len(merged_docs))
        /\ \A i \in 1..Len(candidates) : candidates[i] = merged_docs[i]
        /\ \A i \in (pre_rerank_k + 1)..Len(merged_docs) :
              /\ merged_docs[i] \notin Range(ranked_docs)
              /\ merged_docs[i] \notin Range(result)

\* A call with a loaded reranker whose fusion is longer than pre_rerank_k
C7_Witness ==
    /\ pc = "done"
    /\ model # None
    /\ tokenizer # None
    /\ Len(merged_docs) > pre_rerank_k
    /\ Len(candidates) = pre_rerank_k
    /\ result # <<>>

(***************************************************************************)
(* Properties of the ingestion (SpecIngest).                               *)
(***************************************************************************)
IdSet(docs) == {docs[i].chunk_uuid : i \in 1..Len(docs)}

HashSet(docs) == {docs[i].chunk_hash : i \in 1..Len(docs)}

\* Chunks of equal normalized text in the two lists have equal id and hash
SameTextSameIdentity(docs1, docs2) ==
    \A i \in 1..Len(docs1), j \in 1..Len(docs2) :
        docs1[i].page_content = docs2[j].page_content =>
            /\ docs1[i].chunk_uuid = docs2[j].chunk_uuid
            /\ docs1[i].chunk_hash = docs2[j].chunk_hash

\* Every chunk carries the normalized form of the text it was prepared from
TextIsNormalized ==
    /\ Len(ing_documents) = Len(ing_chunks)
    /\ \A i \in 1..Len(ing_documents) :
          ing_documents[i].page_content = NormalizeText(ing_chunks[i].page_content)

\* C8: id and content hash of a chunk depend on its normalized text alone:
\* chunks of equal normalized text get equal id and hash whatever their
\* position, file, file name or the ingestion before, and ingesting the
\* same file again gives the same chunk count, id set and hash set.
C8_IdentityFromNormalizedText ==
    /\ [](TextIsNormalized /\ SameTextSameIdentity(ing_documents, ing_documents))
    /\ [][ingest_pc = "prepared" =>
            /\ SameTextSameIdentity(ing_documents, ing_documents')
            /\ ing_file' = ing_file =>
                  /\ Len(ing_documents') = Len(ing_documents)
                  /\ IdSet(ing_documents') = IdSet(ing_documents)
                  /\ HashSet(ing_documents') = HashSet(ing_documents)]_vars

\* The file of the call before ingested again under another name, two of its
\* chunks at different positions differing in whitespace only
C8_Witness ==
    /\ ingest_pc = "prepared"
    /\ reingested
    /\ Len(ing_documents) >= 3
    /\ \E i, j \in 1..Len(ing_documents) :
          /\ i # j
          /\ ing_chunks[i].page_content # ing_chunks[j].page_content
          /\ ing_documents[i].page_content = ing_documents[j].page_content
          /\ ing_ids[i] = ing_ids[j]

\* C9: every table block of the parser becomes exactly one chunk holding
\* the whole text of the block, whatever its length: as many table chunks
\* as table blocks, none split, none merged with another block.
C9_TablesAreAtomic ==
    ingest_pc = "prepared" =>
        LET tables == SelectSeq(ing_docs, LAMBDA d : d.is_atomic)
            raw == SelectSeq(ing_chunks, LAMBDA d : d.is_atomic)
            atomic == SelectSeq(ing_documents, LAMBDA d : d.is_atomic)
        IN  /\ Len(atomic) = Len(tables)
            /\ Len(raw) = Len(tables)
            /\ \A i \in 1..Len(tables) :
                  /\ raw[i].page_content = tables[i].page_content
                  /\ atomic[i].page_content = NormalizeText(tables[i].page_content)
                  /\ atomic[i].chunk_type = "table"
            /\ \A i \in 1..Len(ing_documents) :
                  ing_documents[i].chunk_type = "table" => ing_documents[i].is_atomic

\* A paragraph followed by a table longer than the chunk size
C9_Witness ==
    /\ ingest_pc = "prepared"
    /\ Len(ing_docs) = 2
    /\ ~ing_docs[1].is_atomic
    /\ ing_docs[2].is_atomic
    /\ Len(ing_docs[2].page_content) > ChunkSize
    /\ Cardinality({i \in 1..Len(ing_documents) : ing_documents[i].is_atomic}) = 1

\* C10: within one ingest_file run the chunk_index values are 0, 1, ..., n-1
\* in the order of the chunks: pairwise distinct and strictly increasing.
C10_ChunkIndexIncreasing ==
    ingest_pc = "prepared" =>
        /\ \A i \in 1..Len(ing_documents) : ing_documents[i].chunk_index = i - 1
        /\ \A i, j \in 1..Len(ing_documents) :
              i < j => ing_documents[i].chunk_index < ing_documents[j].chunk_index

\* A run of three chunks or more, a table chunk coming after a paragraph chunk
C10_Witness ==
    /\ ingest_pc = "prepared"
    /\ Len(ing_documents) >= 3
    /\ \E i, j \in 1..Len(ing_documents) :
          /\ i < j
          /\ ing_documents[i].chunk_type = "paragraph"
          /\ ing_documents[j].chunk_type = "table"

(***************************************************************************)
(* Properties of the Reranker life cycle (SpecRerank).                     *)
(***************************************************************************)
\* C13: when from_pretrained fails for the model or the tokenizer, load()
\* returns without raising past its caller and the reranker is left not
\* loaded (model or tokenizer absent), so rerank passes its input through.
C13_LoadFailsOpen ==
    (load_outcome \in {"model_fails", "tokenizer_fails"} /\ unloads = 0) =>
        /\ ~load_raised
        /\ (model = None \/ tokenizer = None)

\* The constructor's load() failed on the model and raised: no Reranker
\* object exists
C13_Witness ==
    /\ load_outcome = "model_fails"
    /\ load_raised
    /\ rstate = "failed"
    /\ model = None

\* C14: after unload() the model and the tokenizer are both released and
\* nothing was raised, also when unload() is called again; every rerank call
\* between an unload() and the next load() returns its input unchanged.
C14_UnloadReleases ==
    unloads > 0 =>
        /\ model = None
        /\ tokenizer = None
        /\ ~unload_raised
        /\ (rr_pc = "returned" => rr_out = rr_documents)

\* A rerank of two candidates after a successful load() and two unload()s
C14_Witness ==
    /\ load_outcome = "ok"
    /\ unloads = 2
    /\ rr_pc = "returned"
    /\ Len(rr_documents) = 2
    /\ rr_out = rr_documents
    /\ model = None
    /\ tokenizer = None

(***************************************************************************)
(* Properties of DocxParser.parse (SpecParse).                             *)
(***************************************************************************)
\* The lines at which the while loop has stood (not skipped as table rows)
ScannedLines == {k \in 1..Len(p_lines) : p_class[k] \notin {"unseen", "row"}}

Largest(S) == CHOOSE k \in S : \A j \in S : j <= k

\* The most recent section header of the scan up to line f, if any
SectionAt(f) ==
    LET hs == {k \in 1..Len(p_lines) : p_class[k] = "header" /\ k <= f}
    IN  IF hs = {} THEN NoSection ELSE Strip(p_lines[Largest(hs)])

StrippedLines(src) == [k \in 1..Len(src) |-> Strip(p_lines[src[k]])]

\* The loop is at a line and takes the header branch in this step
HeaderStep ==
    /\ p_pc = "scan"
    /\ p_idx <= Len(p_lines)
    /\ p_class'[p_idx] = "header"

\* A document made of a header line, a text line and a pipe table
HeaderTextTable ==
    /\ Len(p_lines) >= 5
    /\ \A k \in 3..(Len(p_lines) - 1) : HasPipe(p_lines[k])
    /\ IsMainSection(Strip(p_lines[1]))
    /\ ~HasPipe(p_lines[1])
    /\ Strip(p_lines[2]) # <<>>
    /\ ~IsMainSection(Strip(p_lines[2]))
    /\ ~HasPipe(p_lines[2])
    /\ HasPipe(p_lines[3])
    /\ IsSeparatorRow(Strip(p_lines[4]))

\* C16: every block carries the most recent section header the scan met up
\* to the block's first line (none before the first header); a header line
\* flushes the pending text as a paragraph block under the previous section,
\* becomes the current section and starts the next paragraph block; a
\* header line, a text line and a pipe table give exactly a paragraph block
\* under that header and an atomic table block.
C16_SectionOfBlocks ==
    /\ [](/\ \A k \in ScannedLines :
                p_class[k] = "header" <=>
                    /\ Strip(p_lines[k]) # <<>>
                    /\ ~IsTableStart(p_lines, k)
                    /\ IsMainSection(Strip(p_lines[k]))
          /\ Len(p_src) = Len(p_documents)
          /\ \A b \in 1..Len(p_documents) :
                p_documents[b].section = SectionAt(p_src[b][1])
          /\ (p_pc = "done" /\ HeaderTextTable) =>
                /\ Len(p_documents) = 2
                /\ p_documents[1].chunk_type = "paragraph"
                /\ p_documents[1].section = Strip(p_lines[1])
                /\ p_documents[1].page_content =
                      JoinLines(<<Strip(p_lines[1]), Strip(p_lines[2])>>)
                /\ p_documents[2].chunk_type = "table"
                /\ p_documents[2].is_atomic)
    /\ [][HeaderStep =>
            /\ p_documents' =
                  IF p_content = <<>> THEN p_documents
                  ELSE Append(p_documents,
                              [page_content |-> JoinLines(p_content),
                               chunk_type |-> "paragraph",
                               section |-> p_section,
                               is_atomic |-> FALSE])
            /\ p_section' = Strip(p_lines[p_idx])
            /\ p_content' = <<Strip(p_lines[p_idx])>>]_vars

\* The document of the example, parsed
C16_Witness ==
    /\ p_pc = "done"
    /\ HeaderTextTable
    /\ Len(p_documents) = 2
    /\ p_documents[1].section = Strip(p_lines[1])
    /\ p_documents[2].section = Strip(p_lines[1])
    /\ p_documents[2].is_atomic

\* Lines k and k+1 both hold a pipe and line k+1 is a separator row
TableCondition(k) ==
    /\ k + 1 <= Len(p_lines)
    /\ HasPipe(Strip(p_lines[k]))
    /\ HasPipe(Strip(p_lines[k + 1]))
    /\ IsSeparatorRow(Strip(p_lines[k + 1]))

\* The first line after the run from line k on that holds no pipe
RunEnd(k) ==
    LET after == {j \in (k + 1)..Len(p_lines) : ~HasPipe(Strip(p_lines[j]))}
    IN  IF after = {} THEN Len(p_lines) + 1
        ELSE CHOOSE j \in after : \A i \in after : j <= i

\* The loop is at a line and takes the table branch in this step
TableStep ==
    /\ p_pc = "scan"
    /\ p_idx <= Len(p_lines)
    /\ p_class'[p_idx] = "table"

\* C17: the scan takes a line as a table start exactly when it and the next
\* line hold a pipe and the next line is a separator row; the table block is
\* that line and the maximal run of following lines holding a pipe; the
\* pending text is flushed as a paragraph block before it, the scan resumes
\* after the run, and no captured line is in a paragraph block.
C17_TableCapture ==
    /\ [](/\ \A k \in ScannedLines : p_class[k] = "table" <=> TableCondition(k)
          /\ Len(p_src) = Len(p_documents)
          /\ \A b \in 1..Len(p_documents) :
                /\ p_documents[b].page_content = JoinLines(StrippedLines(p_src[b]))
                /\ p_documents[b].chunk_type = "table" =>
                      /\ p_documents[b].is_atomic
                      /\ p_src[b] = [k \in 1..(RunEnd(p_src[b][1]) - p_src[b][1]) |->
                                        p_src[b][1] + k - 1]
                /\ p_documents[b].chunk_type = "paragraph" =>
                      /\ ~p_documents[b].is_atomic
                      /\ \A k \in Range(p_src[b]) : p_class[k] \in {"header", "text"}
          /\ \A k \in Range(p_content_src) : p_class[k] \in {"header", "text"})
    /\ [][TableStep =>
            /\ Len(p_documents') = Len(p_documents) + (IF p_content = <<>> THEN 1 ELSE 2)
            /\ p_content # <<>> =>
                  p_documents'[Len(p_documents) + 1] =
                      [page_content |-> JoinLines(p_content),
                       chunk_type |-> "paragraph",
                       section |-> p_section,
                       is_atomic |-> FALSE]
            /\ p_documents'[Len(p_documents')].chunk_type = "table"
            /\ p_content' = <<>>
            /\ p_idx' = RunEnd(p_idx)]_vars

\* A text line, then a table of three rows, parsed
C17_Witness ==
    /\ p_pc = "done"
    /\ Len(p_documents) = 2
    /\ p_documents[1].chunk_type = "paragraph"
    /\ p_documents[2].chunk_type = "table"
    /\ p_src[2] = <<2, 3, 4>>
    /\ p_class[4] = "row"

(***************************************************************************)
(* Properties of the stages of one aretrieve call (Spec).                  *)
(***************************************************************************)
StageOrder == <<"vector", "bm25", "rerank">>

StagePos(stage) == CHOOSE k \in 1..Len(StageOrder) : StageOrder[k] = stage

\* C19: one aretrieve call invokes each stage at most once, in the order
\* vector, lexical, rerank; when a stage raises, that stage is the last one
\* invoked, nothing is returned and the error reaches the caller; a call
\* that returns has run every stage it holds without error.
C19_StagesOnceInOrder ==
    /\ [](/\ \A i, j \in 1..Len(stage_calls) :
                i < j => StagePos(stage_calls[i]) < StagePos(stage_calls[j])
          /\ pc = "raised" <=> error # "none"
          /\ error # "none" =>
                /\ stage_calls # <<>>
                /\ stage_calls[Len(stage_calls)] = error
                /\ result = <<>>
          /\ pc = "done" =>
                stage_calls = IF bm25 = None THEN <<"vector", "rerank">>
                              ELSE <<"vector", "bm25", "rerank">>)
    /\ [][error # "none" => UNCHANGED <<stage_calls, error, result, pc>>]_vars

\* The lexical search raised after a vector search that found documents
C19_Witness ==
    /\ pc = "raised"
    /\ error = "bm25"
    /\ stage_calls = <<"vector", "bm25">>
    /\ vec_docs # <<>>
    /\ result = <<>>

(***************************************************************************)
(* Properties of the AsyncBM25Retriever lock (SpecBM25).                   *)
(***************************************************************************)
\* The tasks whose job (a search or a rebuild) is running in the executor
Executing == {t \in Tasks : tasks[t].pc = "executor"}

\* C12: at most one index operation runs at a time, whatever the
\* interleaving of aretrieve and aadd_documents calls: a running search or
\* rebuild belongs to the task that holds the lock, and every other call
\* that wants the index waits.
C12_OneIndexOperation ==
    /\ Cardinality(Executing) <= 1
    /\ \A t \in Tasks :
          tasks[t].pc \in {"executor", "job_ok", "job_failed"} => lock_holder = t

\* A rebuild is running while a search and another rebuild wait for the lock
C12_Witness ==
    \E t1, t2, t3 \in Tasks :
        /\ tasks[t1].pc = "executor"
        /\ tasks[t1].op = "aadd_documents"
        /\ tasks[t2].pc = "waiting"
        /\ tasks[t2].op = "aretrieve"
        /\ tasks[t3].pc = "waiting"
        /\ tasks[t3].op = "aadd_documents"

(***************************************************************************)
(* Properties of ingestion on the running service (SpecService).           *)
(***************************************************************************)
\* C11: when ingest_file returns for the file of the returned call before
\* it, neither the collection nor the corpus held by the BM25 retriever
\* holds more entries for the chunks of the file than after that call.
C11_ReingestNoDuplicates ==
    (ingest_pc = "returned" /\ counts_prev.file = counts_last.file) =>
        /\ counts_last.vec <= counts_prev.vec
        /\ counts_last.lex <= counts_prev.lex

\* The second ingestion of a file returned: as many points as before, more
\* corpus entries than before
C11_Witness ==
    /\ ingest_pc = "returned"
    /\ counts_prev.file = counts_last.file
    /\ counts_last.vec = counts_prev.vec
    /\ counts_last.vec > 0
    /\ counts_last.lex > counts_prev.lex

\* C15: on a service started over an empty corpus, once an ingestion has
\* returned its chunks are in the collection, a BM25 retriever is held and
\* its index holds the chunks.
C15_LexicalAddedLazily ==
    (all_docs = <<>> /\ app_pc = "serving" /\ ingest_pc = "returned"
        /\ ing_documents # <<>>) =>
        /\ CountVec(vector_index, ing_documents) > 0
        /\ bm25 # None
        /\ \A i \in 1..Len(ing_documents) :
              \E j \in 1..Len(bm25_index) :
                 bm25_index[j].page_content = ing_documents[i].page_content

\* An ingestion returned on a service started empty: the chunks are in the
\* collection and no BM25 retriever is held
C15_Witness ==
    /\ all_docs = <<>>
    /\ app_pc = "serving"
    /\ ingest_pc = "returned"
    /\ ing_documents # <<>>
    /\ CountVec(vector_index, ing_documents) > 0
    /\ bm25 = None
    /\ bm25_index = <<>>

IngestStageOrder == <<"parse", "vector", "bm25">>

IngestStagePos(stage) ==
    CHOOSE k \in 1..Len(IngestStageOrder) : IngestStageOrder[k] = stage

LexicalUnchanged ==
    /\ bm25_documents = lex_before.documents
    /\ bm25_index = lex_before.index

VectorWritten == vector_index = VectorUpsert(vec_before, ing_documents, ing_ids)

\* C18: ingest_file invokes parse, the vector write and the lexical write
\* at most once each and in that order; the stage that fails is the last
\* one invoked and its error reaches the caller; after a parse failure both
\* indexes are as before the call, after a vector-write failure the
\* lexical index is, and after a lexical-write failure the chunks written
\* to the collection are still there.
C18_IngestStagesInOrder ==
    /\ \A i, j \in 1..Len(ing_stages) :
          i < j => IngestStagePos(ing_stages[i]) < IngestStagePos(ing_stages[j])
    /\ ingest_pc = "raised" <=> ing_error # "none"
    /\ ing_error # "none" => ing_stages[Len(ing_stages)] = ing_error
    /\ ing_error = "parse" =>
          /\ ing_stages = <<"parse">>
          /\ vector_index = vec_before
          /\ LexicalUnchanged
    /\ ing_error = "vector" =>
          /\ ing_stages = <<"parse", "vector">>
          /\ LexicalUnchanged
    /\ ing_error = "bm25" =>
          /\ ing_stages = <<"parse", "vector", "bm25">>
          /\ VectorWritten
    /\ ingest_pc = "lexical" =>
          /\ ing_stages = <<"parse", "vector", "bm25">>
          /\ VectorWritten
          /\ LexicalUnchanged
    /\ ingest_pc = "returned" =>
          /\ ing_stages = IF bm25 # None /\ ing_documents # <<>>
                          THEN <<"parse", "vector", "bm25">>
                          ELSE <<"parse", "vector">>
          /\ VectorWritten

\* The lexical write failed after the vector write added points
C18_Witness ==
    /\ ingest_pc = "raised"
    /\ ing_error = "bm25"
    /\ Len(vector_index) > Len(vec_before)
    /\ VectorWritten
    /\ bm25_index = lex_before.index

(***************************************************************************)
(* Properties of the questions (SpecAsk).                                  *)
(***************************************************************************)
\* C20: the documents arun hands to the prompt of the LLM are what the
\* hybrid retrieval returns for the query: the vector and lexical hits
\* fused, reranked and cut to top_k.
C20_EvidenceIsHybridOutput ==
    ask_pc = "answered" =>
        evidence = HybridResult(question.vector_hits, question.lexical_hits,
                                model, tokenizer, question.scores)

\* A question with lexical hits, answered from the vector hits alone
C20_Witness ==
    /\ ask_pc = "answered"
    /\ pipeline_retriever = "VectorRetriever"
    /\ question.lexical_hits # <<>>
    /\ question.vector_hits # <<>>
    /\ evidence = question.vector_hits
    /\ evidence # HybridResult(question.vector_hits, question.lexical_hits,
                                model, tokenizer, question.scores)

(***************************************************************************)
(* Properties of the Reranker fields (SpecRerank).                         *)
(***************************************************************************)
\* C25: in every state reached through construction, load() and unload(),
\* also after a load in which only the model or only the tokenizer failed,
\* the model and the tokenizer are both present or both absent.
C25_BothOrNeither ==
    (model = None) <=> (tokenizer = None)

\* The constructor's load() got the model but not the tokenizer, and
\* returned: a Reranker object that holds a model and no tokenizer
C25_Witness ==
    /\ load_outcome = "tokenizer_fails"
    /\ ~load_raised
    /\ rstate = "ready"
    /\ model = Model
    /\ tokenizer = None

(***************************************************************************)
(* Properties of the fusion key (SpecFusion).                              *)
(***************************************************************************)
\* C26: two search results with the same chunk text are fused into one
\* candidate whether or not each carries a chunk_hash: no two entries of
\* the fused list have the same text.
C26_SameTextFusedOnce ==
    pc = "fused" =>
        \A i, j \in 1..Len(merged_docs) :
            merged_docs[i].page_content = merged_docs[j].page_content => i = j

\* A fusion of a vector result that carries chunk_hash with a lexical
\* result of the same text that lacks it
C26_Witness ==
    /\ pc = "fused"
    /\ \E i \in 1..Len(vec_docs) : \E j \in 1..Len(bm25_docs) :
          /\ vec_docs[i].page_content = bm25_docs[j].page_content
          /\ vec_docs[i].chunk_hash = Sha256(vec_docs[i].page_content)
          /\ bm25_docs[j].chunk_hash = NoHash

(***************************************************************************)
(* Properties of the lines kept by DocxParser.parse (SpecParse).           *)
(***************************************************************************)
RECURSIVE SplitOnNewline(_, _)
\* text.split("\n"), cur being the line read so far
SplitOnNewline(text, cur) ==
    IF text = <<>> THEN <<cur>>
    ELSE IF Head(text) = Newline
    THEN <<cur>> \o SplitOnNewline(Tail(text), <<>>)
    ELSE SplitOnNewline(Tail(text), Append(cur, Head(text)))

RECURSIVE BlockLines(_)
\* The lines of the blocks, reading the blocks in order
BlockLines(documents) ==
    IF documents = <<>> THEN <<>>
    ELSE SplitOnNewline(Head(documents).page_content, <<>>)
            \o BlockLines(Tail(documents))

\* The non-blank lines among the first n lines of the cleaned text, stripped
NonBlankLines(n) ==
    LET stripped == [k \in 1..n |-> Strip(p_lines[k])]
    IN  SelectSeq(stripped, LAMBDA line : line # <<>>)

\* C27: parse loses, duplicates and reorders nothing: the lines of the
\* emitted blocks, read in block order, are exactly the non-blank stripped
\* lines of the cleaned text in their order (with the pending text buffer
\* while the scan is under way), and no emitted block is empty.
C27_NothingLost ==
    /\ BlockLines(p_documents) \o p_content = NonBlankLines(p_idx - 1)
    /\ \A i \in 1..Len(p_documents) :
          /\ p_documents[i].page_content # <<>>
          /\ \A k \in 1..Len(BlockLines(<<p_documents[i]>>)) :
                BlockLines(<<p_documents[i]>>)[k] # <<>>
    /\ p_pc = "done" =>
          /\ p_content = <<>>
          /\ BlockLines(p_documents) = NonBlankLines(Len(p_lines))

\* A finished parse of a blank line, a text line and a table: a paragraph
\* block and a table block
C27_Witness ==
    /\ p_pc = "done"
    /\ Len(p_lines) = 5
    /\ Strip(p_lines[1]) = <<>>
    /\ Len(p_documents) = 2
    /\ p_documents[1].chunk_type = "paragraph"
    /\ p_documents[2].chunk_type = "table"
    /\ Len(BlockLines(p_documents)) = 3

(***************************************************************************)
(* Properties of the rebuild in aadd_documents (SpecBM25).                 *)
(***************************************************************************)
\* The rebuild job of task t ends with an exception in this step
RebuildFails(t) ==
    /\ tasks[t].op = "aadd_documents"
    /\ tasks[t].pc = "executor"
    /\ tasks'[t].pc = "job_failed"

\* C24: when the rebuild inside aadd_documents fails, the error is raised
\* again to the caller and the lexical state is left as it was before the
\* call: the held corpus does not hold the new batch and the index in use
\* is still the one of the held corpus.
C24_FailedRebuildLeavesState ==
    [][/\ \A t \in Tasks :
             RebuildFails(t) =>
                 /\ bm25_documents' = bm25_documents
                 /\ bm25_index' = bm25_index
                 /\ bm25_index' = FromDocuments(bm25_documents')
       /\ \A t \in Tasks :
             (tasks[t].pc = "job_failed" /\ tasks'[t].pc # "job_failed") =>
                 tasks'[t].pc = "raised"]_vars

\* An aadd_documents call has raised after its rebuild failed, and the held
\* corpus holds its batch while the index in use does not
C24_Witness ==
    \E t \in Tasks :
        /\ tasks[t].op = "aadd_documents"
        /\ tasks[t].pc = "raised"
        /\ Len(bm25_documents) = Len(bm25_index) + Len(tasks[t].new_docs)
        /\ bm25_index # FromDocuments(bm25_documents)

(***************************************************************************)
(* Properties of the corpus held by AsyncBM25Retriever (SpecBM25).         *)
(***************************************************************************)
\* The rebuild job of task t ends without an exception in this step
RebuildSucceeds(t) ==
    /\ tasks[t].op = "aadd_documents"
    /\ tasks[t].pc = "executor"
    /\ tasks'[t].pc = "job_ok"

\* No rebuild has failed so far
NoRebuildFailed ==
    \A t \in Tasks :
        tasks[t].op = "aadd_documents" => tasks[t].pc \notin {"job_failed", "raised"}

\* C22: through successful aadd_documents calls, concurrent ones included,
\* the held corpus grows only by the whole batch of the call that holds the
\* lock, appended at its end, once per call, so it is the initial corpus
\* followed by every added batch in the order the calls got the lock; the
\* index in use is the one built from the whole corpus; a call with an
\* empty batch changes neither.
C22_CorpusIsBatchesInLockOrder ==
    /\ [](NoRebuildFailed => bm25_index = bm25_documents)
    /\ [][/\ \A t \in Tasks :
                RebuildSucceeds(t) =>
                    /\ lock_holder = t
                    /\ bm25_documents' = bm25_documents \o tasks[t].new_docs
                    /\ bm25_index' = bm25_documents'
          /\ (\A t \in Tasks : tasks'[t].pc = "job_ok" => tasks[t].pc = "job_ok")
                /\ NoRebuildFailed'
                => UNCHANGED <<bm25_documents, bm25_index>>
          /\ \A t \in Tasks :
                (tasks[t].pc = "idle" /\ tasks'[t].op = "aadd_documents"
                    /\ tasks'[t].new_docs = <<>>) =>
                    /\ tasks'[t].pc = "returned"
                    /\ UNCHANGED <<bm25_documents, bm25_index, lock_holder>>
          /\ \A t \in Tasks :
                (tasks[t].op = "aadd_documents" /\ tasks[t].pc = "job_ok"
                    /\ tasks'[t].pc # "job_ok") => tasks'[t].pc = "returned"]_vars

\* Three aadd_documents calls have returned, one of them with a batch of two
\* chunks, and the held corpus is their batches one after the other
C22_Witness ==
    /\ \A t \in Tasks : tasks[t].op = "aadd_documents" /\ tasks[t].pc = "returned"
    /\ \E t1, t2, t3 \in Tasks :
          /\ Cardinality({t1, t2, t3}) = 3
          /\ Len(tasks[t2].new_docs) = 2
          /\ tasks[t1].new_docs # <<>>
          /\ tasks[t3].new_docs # tasks[t1].new_docs
          /\ tasks[t3].new_docs # <<>>
          /\ bm25_documents = tasks[t1].new_docs \o tasks[t2].new_docs
                                  \o tasks[t3].new_docs
          /\ bm25_index = bm25_documents

(***************************************************************************)
(* Properties of cancelled calls of AsyncBM25Retriever (SpecCancel).       *)
(***************************************************************************)
\* The tasks that were cancelled while their job was running in the
\* executor, and whose job has not ended yet
Abandoned == {t \in Tasks : tasks[t].pc = "abandoned"}

\* C23: when the task awaiting aadd_documents or aretrieve is cancelled
\* while its job is running in the executor, the lock is not released before
\* the job ends, so no search runs at the same time as a rebuild that is
\* still running.
C23_CancelKeepsLock ==
    \A t \in Abandoned :
        /\ lock_holder = t
        /\ \A u \in Tasks \ {t} : tasks[u].pc \notin {"executor", "abandoned"}

\* The rebuild of a cancelled aadd_documents call is still running while a
\* search of another task runs in the executor under the lock
C23_Witness ==
    \E t, u \in Tasks :
        /\ tasks[t].pc = "abandoned"
        /\ tasks[t].op = "aadd_documents"
        /\ tasks[u].pc = "executor"
        /\ tasks[u].op = "aretrieve"
        /\ lock_holder = u

(***************************************************************************)
(* Properties of the event loop (SpecLoop).                                *)
(***************************************************************************)
\* The tasks whose rerank or rebuild is being computed
Computing ==
    {t \in Tasks : /\ tasks[t].pc \in {"executor", "loop"}
                   /\ tasks[t].op \in {"arerank", "aadd_documents"}}

\* C21: a rerank and a rebuild run in the worker pool and do not block the
\* event loop: while one is being computed the loop is free, a vector search
\* of another request can start, and one under way can complete.
C21_LoopNotBlocked ==
    Computing # {} =>
        /\ LoopFree
        /\ (\E u \in Tasks : tasks[u].pc = "idle") => ENABLED CallVectorSearch
        /\ (\E u \in Tasks : tasks[u].pc = "io") => ENABLED VectorSearchEnds

\* A rerank and a rebuild are still being computed, and a vector search of
\* another request that began after both has completed
C21_Witness ==
    \E t1, t2, u \in Tasks :
        /\ tasks[t1].op = "arerank"
        /\ tasks[t2].op = "aadd_documents"
        /\ {t1, t2} \subseteq Computing
        /\ tasks[u].op = "vector_search"
        /\ tasks[u].pc = "returned"
        /\ {t1, t2} \subseteq tasks[u].during

(***************************************************************************)
(* Properties of the stored question records (SpecQuestions).              *)
(***************************************************************************)
\* The questions whose record has been stored
Submitted == {q \in Questions : q_store[q] # NoRecord}

\* The questions whose pipeline run has ended, by returning or by raising
PipelineEnded ==
    {q \in Questions : q_tasks[q].pc \in {"update_get", "update_set", "finished"}}

\* C28: the stored status of a question starts as "processing" and changes
\* at most once, to "done" with the answer or to "error" with the error
\* text; "done" and "error" never change again; every question whose
\* pipeline run has ended reaches "done" or "error".
C28_StatusChangesOnce ==
    /\ [](\A q \in Submitted :
            /\ q_store[q].status \in {"processing", "done", "error"}
            /\ q_store[q].status = "processing" => q_tasks[q].pc # "finished"
            /\ q_store[q].status = "done" =>
                  /\ q_store[q].answer \in Answers
                  /\ q_store[q].answer = q_tasks[q].fields.answer
            /\ q_store[q].status = "error" =>
                  /\ q_store[q].error \in ErrorTexts
                  /\ q_store[q].error = q_tasks[q].fields.error)
    /\ [][\A q \in Questions :
             q_store'[q] # q_store[q] =>
                 IF q_store[q] = NoRecord
                 THEN q_store'[q].status = "processing"
                 ELSE /\ q_store[q].status = "processing"
                      /\ q_store'[q].status \in {"done", "error"}]_vars
    /\ \A q \in Questions :
          (q \in PipelineEnded) ~> (q_store[q].status \in {"done", "error"})

\* Three questions were submitted; the pipeline answered one and raised for
\* another, both records are updated, and the third is still processing
C28_Witness ==
    \E q1, q2, q3 \in Questions :
        /\ q_store[q1].status = "done"
        /\ q_store[q1].answer \in Answers
        /\ q_tasks[q1].pc = "finished"
        /\ q_store[q2].status = "error"
        /\ q_store[q2].error \in ErrorTexts
        /\ q_tasks[q2].pc = "finished"
        /\ q_store[q3].status = "processing"
        /\ q_tasks[q3].pc = "pipeline"

====
